---- MODULE Spec2Model ----
(***************************************************************************)
(* The simulation engine of v1engine_WebApp: Backtest.run (backtest.py)    *)
(* driving Portfolio (core/portfolio.py) and ExecutionHandler              *)
(* (core/ExecutionHandler.py) over the bars served by DataHandler          *)
(* (core/DataHandler.py).                                                  *)
(*                                                                         *)
(* Python floats are modelled as exact rationals [n, d] in lowest terms.   *)
(* Dates are integers; the price table and the score matrices are fixed    *)
(* row by row, a row being drawn when the run first reads it and never     *)
(* changed afterwards.                                                     *)
(***************************************************************************)
EXTENDS Integers, Sequences, FiniteSets, TLC

\* ------------------------------------------------------------------------
\* Bounds
\* ------------------------------------------------------------------------

\* number of trading days in the calendar of a run
NumDays == 3

\* ------------------------------------------------------------------------
\* Float arithmetic, as exact rationals
\* ------------------------------------------------------------------------

Abs(i) == IF i < 0 THEN -i ELSE i

RECURSIVE GCD(_, _)
GCD(a, b) == IF b = 0 THEN a ELSE GCD(b, a % b)

\* the rational n/d (d # 0) in lowest terms with a positive denominator
Norm(n, d) ==
    LET s == IF d < 0 THEN -1 ELSE 1
        g == GCD(Abs(n), Abs(d))
    IN  [n |-> (s * n) \div g, d |-> (s * d) \div g]

R(i) == [n |-> i, d |-> 1]

Zero == R(0)

One == R(1)

RAdd(x, y) == Norm(x.n * y.d + y.n * x.d, x.d * y.d)

RSub(x, y) == Norm(x.n * y.d - y.n * x.d, x.d * y.d)

RMul(x, y) == Norm(x.n * y.n, x.d * y.d)

\* x / y, y # 0
RDiv(x, y) == Norm(x.n * y.d, x.d * y.n)

RLt(x, y) == x.n * y.d < y.n * x.d

RLe(x, y) == x.n * y.d <= y.n * x.d

\* Python int(x): truncation toward zero
IntTrunc(x) == IF x.n >= 0 THEN x.n \div x.d ELSE -((-x.n) \div x.d)

\* ------------------------------------------------------------------------
\* Universe, calendar, bars, scores, configuration
\* ------------------------------------------------------------------------

\* Python None where a record is expected (a bar, a fill, a configuration entry)
None == [none |-> TRUE]

\* Python None where a date is expected
NoDate == 0

\* config['tickers'], lower-cased, in configuration order
tickers_to_trade == <<"a", "b">>

Tickers == {tickers_to_trade[i] : i \in DOMAIN tickers_to_trade}

\* the enabled strategies, in configuration order
strategy_names == <<"s1">>

\* the benchmark's dates between start_date and end_date: ascending, with gaps
trading_days == [i \in 1..NumDays |-> i + ((i - 1) \div 2)]

Dates == 1..trading_days[NumDays]

\* one row of a ticker's price file; a ticker without a row on a date has None
Bar(o, h, l, c) == [open |-> o, high |-> h, low |-> l, close |-> c]

BarFlat == Bar(10, 10, 10, 10)

BarUp == Bar(10, 14, 8, 14)

BarDown == Bar(10, 10, 6, 8)

BarZero == Bar(0, 0, 0, 0)

\* what get_latest_data can return for one date: ticker -> bar or None
BarRows ==
    { [t \in Tickers |-> IF t = "a" THEN x ELSE BarFlat] :
        x \in {BarFlat, BarUp, BarDown, None} }
    \cup { [t \in Tickers |-> IF t = "a" THEN BarZero ELSE BarUp] }

NoRow == [t \in Tickers |-> None]

\* one date of the aligned raw-score matrices: strategy -> ticker -> raw score
ScoreRows ==
    { [s \in DOMAIN strategy_names |-> [t \in Tickers |-> IF t = "a" THEN x ELSE y]] :
        x \in {0, 5}, y \in {-1, 3} } 

\* backtest_settings
Config(freq, topn, sl, tp, comm, slip, cash) ==
    [rebalancing_frequency |-> freq, top_n_positions |-> topn,
     stop_loss |-> sl, take_profit |-> tp,
     commission_per_trade |-> comm, slippage_percent |-> slip,
     initial_cash |-> cash]

\* stop_loss / take_profit: {'type': 'percentage', 'value': v}, or {} (None)
Pct(v) == [type |-> "percentage", value |-> v]

\* top_n = 1, cadence = 1, no exit rule, no trading cost, initial cash 1000
ScenarioConfig == Config(1, 1, None, None, Zero, Zero, R(1000))

Configs ==
    { Config(1, 1, Pct(10), None, R(1), Norm(1, 10), R(100)),
      Config(1, 2, None, Pct(10), Zero, Zero, R(100)),
      Config(2, 2, Pct(10), Pct(10), R(1), Norm(1, 10), R(100)),
      ScenarioConfig }

\* ------------------------------------------------------------------------
\* DataHandler
\* ------------------------------------------------------------------------

\* get_latest_data(date): the bars of the tickers that have a row on that date
get_latest_data(table, date) == table[date]

\* `ticker in latest_data`
HasBar(latest_data, ticker) == latest_data[ticker] # None

\* ------------------------------------------------------------------------
\* Portfolio
\* ------------------------------------------------------------------------

\* the default entry of Portfolio.positions
NewPosition == [shares |-> 0, purchase_price |-> Zero, entry_date |-> NoDate]

\* Portfolio.__init__; keys is the insertion order of the positions dict
NewPortfolio(initial_cash) ==
    [cash |-> initial_cash,
     positions |-> [t \in Tickers |-> NewPosition],
     keys |-> <<>>,
     total_value |-> initial_cash,
     realized_pnl |-> Zero,
     trade_history |-> [t \in Tickers |-> <<>>]]

InSeq(x, seq) == \E i \in DOMAIN seq : seq[i] = x

\* the loop of update_value over positions.items(), from key i on
RECURSIVE MarketValue(_, _, _, _)
MarketValue(positions, keys, latest_data, i) ==
    IF i > Len(keys) THEN Zero
    ELSE LET ticker == keys[i]
             rest == MarketValue(positions, keys, latest_data, i + 1)
         IN  IF positions[ticker].shares > 0 /\ HasBar(latest_data, ticker)
             THEN RAdd(RMul(R(positions[ticker].shares), R(latest_data[ticker].close)), rest)
             ELSE rest

\* mutant: the market value alone, the cash left out of the total
UpdateValueWithoutCash(P, latest_data) ==
    [P EXCEPT !.total_value = MarketValue(P.positions, P.keys, latest_data, 1)]

\* update_value(date)
UpdateValue(P, latest_data) ==
    [P EXCEPT !.total_value = RAdd(P.cash, MarketValue(P.positions, P.keys, latest_data, 1))]

\* order quantities: a share count, or the sentinel 'ALL'
Shares(q) == [shares |-> q]

ALL == [all |-> TRUE]

Order(type, ticker, quantity) == [type |-> type, ticker |-> ticker, quantity |-> quantity]

\* config.get('value', 0) / 100.0 of a 'percentage' entry, 0 when not configured
PctOf(config) == IF config # None /\ config.type = "percentage" THEN Norm(config.value, 100) ELSE Zero

\* mutant: the stop-loss level is compared with the day's close
StopLossHitOnClose(position, bar, cfg) ==
    LET sl_pct == PctOf(cfg.stop_loss)
    IN  /\ RLt(Zero, sl_pct)
        /\ RLe(R(bar.close), RMul(position.purchase_price, RSub(One, sl_pct)))

StopLossHit(position, bar, cfg) ==
    LET sl_pct == PctOf(cfg.stop_loss)
    IN  /\ RLt(Zero, sl_pct)
        /\ RLe(R(bar.low), RMul(position.purchase_price, RSub(One, sl_pct)))

TakeProfitHit(position, bar, cfg) ==
    LET tp_pct == PctOf(cfg.take_profit)
    IN  /\ RLt(Zero, tp_pct)
        /\ RLe(RMul(position.purchase_price, RAdd(One, tp_pct)), R(bar.high))

\* mutant: without the `continue` after a stop-loss match, the take-profit
\* rule is tested too and can add a second order
RECURSIVE GenerateExitOrdersNoContinue(_, _, _, _)
GenerateExitOrdersNoContinue(P, latest_data, cfg, i) ==
    IF i > Len(P.keys) THEN <<>>
    ELSE LET ticker == P.keys[i]
             position == P.positions[ticker]
             rest == GenerateExitOrdersNoContinue(P, latest_data, cfg, i + 1)
         IN  IF position.shares <= 0 \/ ~HasBar(latest_data, ticker) THEN rest
             ELSE (IF StopLossHit(position, latest_data[ticker], cfg)
                   THEN <<Order("SELL", ticker, ALL)>> ELSE <<>>)
                  \o (IF TakeProfitHit(position, latest_data[ticker], cfg)
                      THEN <<Order("SELL", ticker, ALL)>> ELSE <<>>)
                  \o rest

\* generate_exit_orders(date): the loop over positions.items(), from key i on
RECURSIVE GenerateExitOrdersFrom(_, _, _, _)
GenerateExitOrdersFrom(P, latest_data, cfg, i) ==
    IF i > Len(P.keys) THEN <<>>
    ELSE LET ticker == P.keys[i]
             position == P.positions[ticker]
             rest == GenerateExitOrdersFrom(P, latest_data, cfg, i + 1)
         IN  IF position.shares <= 0 \/ ~HasBar(latest_data, ticker) THEN rest
             ELSE IF StopLossHit(position, latest_data[ticker], cfg)
                  THEN <<Order("SELL", ticker, ALL)>> \o rest
             ELSE IF TakeProfitHit(position, latest_data[ticker], cfg)
                  THEN <<Order("SELL", ticker, ALL)>> \o rest
             ELSE rest

generate_exit_orders(P, latest_data, cfg) == GenerateExitOrdersFrom(P, latest_data, cfg, 1)

\* mutant: the basis is overwritten with the price of the latest BUY
ApplyBuyLastPrice(P, fill_event, date) ==
    LET ticker == fill_event.ticker
        quantity == fill_event.quantity
        trade_cost == RMul(R(quantity), fill_event.price)
    IN  [P EXCEPT
            !.positions[ticker] =
                [shares |-> P.positions[ticker].shares + quantity,
                 purchase_price |-> fill_event.price,
                 entry_date |-> date],
            !.cash = RSub(P.cash, trade_cost)]

\* mutant: the basis after a BUY is the plain mean of the old basis and the
\* fill price, whatever the share counts
ApplyBuyUnweightedMean(P, fill_event, date) ==
    LET ticker == fill_event.ticker
        quantity == fill_event.quantity
        trade_cost == RMul(R(quantity), fill_event.price)
        current_shares == P.positions[ticker].shares
    IN  [P EXCEPT
            !.positions[ticker] =
                [shares |-> current_shares + quantity,
                 purchase_price |-> IF current_shares = 0 THEN fill_event.price
                                    ELSE RDiv(RAdd(P.positions[ticker].purchase_price,
                                                   fill_event.price), R(2)),
                 entry_date |-> date],
            !.cash = RSub(P.cash, trade_cost)]

\* update_positions_from_fill, BUY branch
ApplyBuy(P, fill_event, date) ==
    LET ticker == fill_event.ticker
        quantity == fill_event.quantity
        trade_cost == RMul(R(quantity), fill_event.price)
        current_shares == P.positions[ticker].shares
        current_value == RMul(R(current_shares), P.positions[ticker].purchase_price)
        new_total_shares == current_shares + quantity
    IN  [P EXCEPT
            !.positions[ticker] =
                [shares |-> new_total_shares,
                 purchase_price |-> IF new_total_shares > 0
                                    THEN RDiv(RAdd(current_value, trade_cost), R(new_total_shares))
                                    ELSE Zero,
                 entry_date |-> date],
            !.cash = RSub(P.cash, trade_cost)]

\* mutant: a closed position keeps its basis and its entry date
ApplySellNoReset(P, fill_event, date) ==
    LET ticker == fill_event.ticker
        quantity == fill_event.quantity
        trade_cost == RMul(R(quantity), fill_event.price)
        purchase_price == P.positions[ticker].purchase_price
        profit_loss == RMul(RSub(fill_event.price, purchase_price), R(quantity))
        entry_date == P.positions[ticker].entry_date
    IN  [P EXCEPT
            !.realized_pnl = RAdd(P.realized_pnl, profit_loss),
            !.trade_history[ticker] =
                IF entry_date # NoDate
                THEN Append(@, [pnl |-> profit_loss, entry_date |-> entry_date, exit_date |-> date])
                ELSE @,
            !.cash = RAdd(P.cash, trade_cost),
            !.positions[ticker].shares = @ - quantity]

\* mutant: a record is appended only by the SELL that closes the position
ApplySellRecordOnClose(P, fill_event, date) ==
    LET ticker == fill_event.ticker
        quantity == fill_event.quantity
        trade_cost == RMul(R(quantity), fill_event.price)
        purchase_price == P.positions[ticker].purchase_price
        profit_loss == RMul(RSub(fill_event.price, purchase_price), R(quantity))
        entry_date == P.positions[ticker].entry_date
        shares_left == P.positions[ticker].shares - quantity
    IN  [P EXCEPT
            !.realized_pnl = RAdd(P.realized_pnl, profit_loss),
            !.trade_history[ticker] =
                IF entry_date # NoDate /\ shares_left = 0
                THEN Append(@, [pnl |-> profit_loss, entry_date |-> entry_date, exit_date |-> date])
                ELSE @,
            !.cash = RAdd(P.cash, trade_cost),
            !.positions[ticker] =
                IF shares_left = 0 THEN NewPosition
                ELSE [@ EXCEPT !.shares = shares_left]]

\* mutant: a closed position has its basis reset and keeps its entry date
ApplySellKeepEntryDate(P, fill_event, date) ==
    LET ticker == fill_event.ticker
        quantity == fill_event.quantity
        trade_cost == RMul(R(quantity), fill_event.price)
        purchase_price == P.positions[ticker].purchase_price
        profit_loss == RMul(RSub(fill_event.price, purchase_price), R(quantity))
        entry_date == P.positions[ticker].entry_date
        shares_left == P.positions[ticker].shares - quantity
    IN  [P EXCEPT
            !.realized_pnl = RAdd(P.realized_pnl, profit_loss),
            !.trade_history[ticker] =
                IF entry_date # NoDate
                THEN Append(@, [pnl |-> profit_loss, entry_date |-> entry_date, exit_date |-> date])
                ELSE @,
            !.cash = RAdd(P.cash, trade_cost),
            !.positions[ticker] =
                IF shares_left = 0 THEN [@ EXCEPT !.shares = 0, !.purchase_price = Zero]
                ELSE [@ EXCEPT !.shares = shares_left]]

\* mutant: the P&L of a SELL that leaves shares is added to realized_pnl and
\* recorded in trade_history as 0
ApplySellRecordZeroOnTrim(P, fill_event, date) ==
    LET ticker == fill_event.ticker
        quantity == fill_event.quantity
        trade_cost == RMul(R(quantity), fill_event.price)
        purchase_price == P.positions[ticker].purchase_price
        profit_loss == RMul(RSub(fill_event.price, purchase_price), R(quantity))
        entry_date == P.positions[ticker].entry_date
        shares_left == P.positions[ticker].shares - quantity
    IN  [P EXCEPT
            !.realized_pnl = RAdd(P.realized_pnl, profit_loss),
            !.trade_history[ticker] =
                IF entry_date # NoDate
                THEN Append(@, [pnl |-> IF shares_left = 0 THEN profit_loss ELSE Zero,
                                entry_date |-> entry_date, exit_date |-> date])
                ELSE @,
            !.cash = RAdd(P.cash, trade_cost),
            !.positions[ticker] =
                IF shares_left = 0 THEN NewPosition
                ELSE [@ EXCEPT !.shares = shares_left]]

\* mutant: a SELL that leaves shares stamps the position with the day's date
ApplySellRestampOnTrim(P, fill_event, date) ==
    LET ticker == fill_event.ticker
        quantity == fill_event.quantity
        trade_cost == RMul(R(quantity), fill_event.price)
        purchase_price == P.positions[ticker].purchase_price
        profit_loss == RMul(RSub(fill_event.price, purchase_price), R(quantity))
        entry_date == P.positions[ticker].entry_date
        shares_left == P.positions[ticker].shares - quantity
    IN  [P EXCEPT
            !.realized_pnl = RAdd(P.realized_pnl, profit_loss),
            !.trade_history[ticker] =
                IF entry_date # NoDate
                THEN Append(@, [pnl |-> profit_loss, entry_date |-> entry_date, exit_date |-> date])
                ELSE @,
            !.cash = RAdd(P.cash, trade_cost),
            !.positions[ticker] =
                IF shares_left = 0 THEN NewPosition
                ELSE [@ EXCEPT !.shares = shares_left, !.entry_date = date]]

\* update_positions_from_fill, SELL branch
ApplySell(P, fill_event, date) ==
    LET ticker == fill_event.ticker
        quantity == fill_event.quantity
        trade_cost == RMul(R(quantity), fill_event.price)
        purchase_price == P.positions[ticker].purchase_price
        profit_loss == RMul(RSub(fill_event.price, purchase_price), R(quantity))
        entry_date == P.positions[ticker].entry_date
        shares_left == P.positions[ticker].shares - quantity
    IN  [P EXCEPT
            !.realized_pnl = RAdd(P.realized_pnl, profit_loss),
            !.trade_history[ticker] =
                IF entry_date # NoDate
                THEN Append(@, [pnl |-> profit_loss, entry_date |-> entry_date, exit_date |-> date])
                ELSE @,
            !.cash = RAdd(P.cash, trade_cost),
            !.positions[ticker] =
                IF shares_left = 0 THEN NewPosition
                ELSE [@ EXCEPT !.shares = shares_left]]

\* mutant: the commission is charged on a BUY only
update_positions_commission_on_buy(P, fill_event, date) ==
    LET ticker == fill_event.ticker
        P0 == IF InSeq(ticker, P.keys) THEN P ELSE [P EXCEPT !.keys = Append(@, ticker)]
    IN  IF fill_event.type = "BUY"
        THEN [ApplyBuy(P0, fill_event, date) EXCEPT !.cash = RSub(@, fill_event.commission)]
        ELSE IF fill_event.type = "SELL" THEN ApplySell(P0, fill_event, date)
        ELSE P0

\* update_positions_from_fill(fill_event, date)
update_positions_from_fill(P, fill_event, date) ==
    LET ticker == fill_event.ticker
        \* self.positions[ticker] creates the entry of a ticker not yet in the dict
        P0 == IF InSeq(ticker, P.keys) THEN P ELSE [P EXCEPT !.keys = Append(@, ticker)]
        P1 == IF fill_event.type = "BUY" THEN ApplyBuy(P0, fill_event, date)
              ELSE IF fill_event.type = "SELL" THEN ApplySell(P0, fill_event, date)
              ELSE P0
    IN  [P1 EXCEPT !.cash = RSub(@, fill_event.commission)]

\* the part of sequence seq whose elements satisfy membership in set keep, in order
RECURSIVE SelectIn(_, _)
SelectIn(seq, keep) ==
    IF seq = <<>> THEN <<>>
    ELSE IF Head(seq) \in keep THEN <<Head(seq)>> \o SelectIn(Tail(seq), keep)
    ELSE SelectIn(Tail(seq), keep)

\* sorted(keys, key=val.get, reverse=True): descending, ties in their original order
SortedDesc(keys, val) ==
    LET n == Len(keys)
        place(i) == Cardinality({j \in 1..n : RLt(val[keys[i]], val[keys[j]])})
                    + Cardinality({j \in 1..(i - 1) : val[keys[j]] = val[keys[i]]}) + 1
    IN  [p \in 1..n |-> keys[CHOOSE i \in 1..n : place(i) = p]]

\* [:top_n]
Take(seq, k) == IF k >= Len(seq) THEN seq ELSE SubSeq(seq, 1, k)

\* mutant: the tickers sold by an exit rule stay in the target set
TargetPortfolioWithExited(aggregated_scores, top_n, sold_due_to_sl_tp) ==
    LET positive_scored_stocks ==
            SelectIn(aggregated_scores.keys,
                     {t \in DOMAIN aggregated_scores.val : RLt(Zero, aggregated_scores.val[t])})
    IN  Take(SortedDesc(positive_scored_stocks, aggregated_scores.val), top_n)

\* mutant: the exited tickers are left out before the top_n are taken, so
\* that the next-ranked ticker takes the slot of an exited one
TargetPortfolioRefilled(aggregated_scores, top_n, sold_due_to_sl_tp) ==
    LET positive_scored_stocks ==
            SelectIn(aggregated_scores.keys,
                     {t \in DOMAIN aggregated_scores.val : RLt(Zero, aggregated_scores.val[t])})
        remaining == SelectIn(SortedDesc(positive_scored_stocks, aggregated_scores.val),
                              DOMAIN aggregated_scores.val \ sold_due_to_sl_tp)
    IN  Take(remaining, top_n)

\* the target set of generate_rebalancing_orders, in ranking order;
\* aggregated_scores is [keys, val]: a dict in insertion order
TargetPortfolio(aggregated_scores, top_n, sold_due_to_sl_tp) ==
    LET positive_scored_stocks ==
            SelectIn(aggregated_scores.keys,
                     {t \in DOMAIN aggregated_scores.val : RLt(Zero, aggregated_scores.val[t])})
        long_targets == Take(SortedDesc(positive_scored_stocks, aggregated_scores.val), top_n)
    IN  SelectIn(long_targets, DOMAIN aggregated_scores.val \ sold_due_to_sl_tp)

\* mutant: every held position is sold in full, the targets included
RECURSIVE SellEveryPosition(_, _, _)
SellEveryPosition(P, target_portfolio, i) ==
    IF i > Len(P.keys) THEN <<>>
    ELSE LET ticker == P.keys[i]
             rest == SellEveryPosition(P, target_portfolio, i + 1)
         IN  IF P.positions[ticker].shares > 0
             THEN <<Order("SELL", ticker, ALL)>> \o rest
             ELSE rest

\* mutant: a held position that is no longer a target is kept
RECURSIVE KeepNonTargets(_, _, _)
KeepNonTargets(P, target_portfolio, i) ==
    IF i > Len(P.keys) THEN <<>>
    ELSE KeepNonTargets(P, target_portfolio, i + 1)

\* mutant: a position that is no longer a target is reduced by half
RECURSIVE SellNonTargetsHalf(_, _, _)
SellNonTargetsHalf(P, target_portfolio, i) ==
    IF i > Len(P.keys) THEN <<>>
    ELSE LET ticker == P.keys[i]
             rest == SellNonTargetsHalf(P, target_portfolio, i + 1)
         IN  IF P.positions[ticker].shares > 0 /\ ~InSeq(ticker, target_portfolio)
             THEN <<Order("SELL", ticker, Shares((P.positions[ticker].shares + 1) \div 2))>>
                  \o rest
             ELSE rest

\* the loop selling the positions that are no longer targets, from key i on
RECURSIVE SellNonTargets(_, _, _)
SellNonTargets(P, target_portfolio, i) ==
    IF i > Len(P.keys) THEN <<>>
    ELSE LET ticker == P.keys[i]
             rest == SellNonTargets(P, target_portfolio, i + 1)
         IN  IF P.positions[ticker].shares > 0 /\ ~InSeq(ticker, target_portfolio)
             THEN <<Order("SELL", ticker, ALL)>> \o rest
             ELSE rest

\* mutant: the quantity is rounded down, math.floor in place of int()
AlignTargetFloor(P, latest_data, ticker, target_position_value) ==
    IF ~HasBar(latest_data, ticker) THEN <<>>
    ELSE LET current_shares == P.positions[ticker].shares
             price == R(latest_data[ticker].close)
         IN  IF RLe(price, Zero) THEN <<>>
             ELSE LET current_value == RMul(R(current_shares), price)
                      value_difference == RSub(target_position_value, current_value)
                      ratio == RDiv(value_difference, price)
                      quantity_to_trade == ratio.n \div ratio.d
                      quantity_to_sell ==
                          IF Abs(quantity_to_trade) < current_shares
                          THEN Abs(quantity_to_trade) ELSE current_shares
                  IN  IF quantity_to_trade > 0
                      THEN <<Order("BUY", ticker, Shares(quantity_to_trade))>>
                      ELSE IF quantity_to_trade < 0 /\ quantity_to_sell > 0
                      THEN <<Order("SELL", ticker, Shares(quantity_to_sell))>>
                      ELSE <<>>

\* the order, if any, that aligns one target with target_position_value
AlignTarget(P, latest_data, ticker, target_position_value) ==
    IF ~HasBar(latest_data, ticker) THEN <<>>
    ELSE LET current_shares == P.positions[ticker].shares
             price == R(latest_data[ticker].close)
         IN  IF RLe(price, Zero) THEN <<>>
             ELSE LET current_value == RMul(R(current_shares), price)
                      value_difference == RSub(target_position_value, current_value)
                      quantity_to_trade == IntTrunc(RDiv(value_difference, price))
                      quantity_to_sell ==
                          IF Abs(quantity_to_trade) < current_shares
                          THEN Abs(quantity_to_trade) ELSE current_shares
                  IN  IF quantity_to_trade > 0
                      THEN <<Order("BUY", ticker, Shares(quantity_to_trade))>>
                      ELSE IF quantity_to_trade < 0 /\ quantity_to_sell > 0
                      THEN <<Order("SELL", ticker, Shares(quantity_to_sell))>>
                      ELSE <<>>

\* the loop over target_portfolio, from target i on
RECURSIVE AlignTargets(_, _, _, _, _)
AlignTargets(P, latest_data, target_portfolio, target_position_value, i) ==
    IF i > Len(target_portfolio) THEN <<>>
    ELSE AlignTarget(P, latest_data, target_portfolio[i], target_position_value)
         \o AlignTargets(P, latest_data, target_portfolio, target_position_value, i + 1)

\* generate_rebalancing_orders, P being the portfolio after its update_value(date)
generate_rebalancing_orders(P, latest_data, aggregated_scores, top_n, sold_due_to_sl_tp) ==
    LET target_portfolio == TargetPortfolio(aggregated_scores, top_n, sold_due_to_sl_tp)
        target_position_value == IF top_n > 0 THEN RDiv(P.total_value, R(top_n)) ELSE Zero
    IN  SellNonTargets(P, target_portfolio, 1)
        \o AlignTargets(P, latest_data, target_portfolio, target_position_value, 1)

\* ------------------------------------------------------------------------
\* ExecutionHandler
\* ------------------------------------------------------------------------

\* trading_days.searchsorted(date, side='right'), a 0-based insertion point
SearchSortedRight(days, date) == Cardinality({i \in DOMAIN days : days[i] <= date})

\* searchsorted with side='left': the insertion point before an equal date
SearchSortedLeft(days, date) == Cardinality({i \in DOMAIN days : days[i] < date})

\* mutant: the next trading day looked up with side='left', which is the
\* order's own day when that day is a trading day
get_next_trading_day_left(date) ==
    LET current_day_loc == SearchSortedLeft(trading_days, date)
    IN  IF current_day_loc < Len(trading_days) THEN trading_days[current_day_loc + 1]
        ELSE NoDate

\* mutant: past the end of the calendar the location is clamped to the last
\* trading day, so a last-day order is executed on its own day
get_next_trading_day_clamped(date) ==
    LET current_day_loc == SearchSortedRight(trading_days, date)
    IN  IF current_day_loc < Len(trading_days) THEN trading_days[current_day_loc + 1]
        ELSE trading_days[Len(trading_days)]

\* _get_next_trading_day(date)
get_next_trading_day(date) ==
    LET current_day_loc == SearchSortedRight(trading_days, date)
    IN  IF current_day_loc < Len(trading_days) THEN trading_days[current_day_loc + 1]
        ELSE NoDate

\* mutant: the open is averaged in, (open + high + low + close) / 4
TypicalPriceWithOpen(bar) == Norm(bar.open + bar.high + bar.low + bar.close, 4)

\* (high + low + close) / 3.0
TypicalPrice(bar) == Norm(bar.high + bar.low + bar.close, 3)

\* the slippage applied to the execution price of an order of this type
Slipped(price, type, slippage_percent) ==
    IF type = "BUY" THEN RMul(price, RAdd(One, slippage_percent))
    ELSE IF type = "SELL" THEN RMul(price, RSub(One, slippage_percent))
    ELSE price

\* mutant: half of the quantity, rounded up, is traded
ResolveQuantityPartial(order, current_positions) ==
    IF order.quantity = ALL THEN (current_positions[order.ticker].shares + 1) \div 2
    ELSE (order.quantity.shares + 1) \div 2

\* mutant: 'ALL' stands for one share when the instrument is not held
ResolveQuantityAtLeastOne(order, current_positions) ==
    IF order.quantity = ALL
    THEN (IF current_positions[order.ticker].shares > 0
          THEN current_positions[order.ticker].shares ELSE 1)
    ELSE order.quantity.shares

\* 'ALL' resolved against current_positions at the call
ResolveQuantity(order, current_positions) ==
    IF order.quantity = ALL THEN current_positions[order.ticker].shares
    ELSE order.quantity.shares

\* mutant: an order for a day without a bar is filled at the price 0
execute_order_without_bar(order, date, current_positions, table, cfg) ==
    LET execution_day == get_next_trading_day(date)
    IN  IF execution_day = NoDate THEN None
        ELSE LET ticker_data == get_latest_data(table, execution_day)[order.ticker]
                 quantity == ResolveQuantity(order, current_positions)
             IN  IF quantity <= 0 THEN None
                 ELSE IF ticker_data = None
                 THEN [type |-> order.type, ticker |-> order.ticker, quantity |-> quantity,
                       price |-> Zero, commission |-> cfg.commission_per_trade]
                 ELSE IF TypicalPrice(ticker_data) = Zero THEN None
                 ELSE [type |-> order.type,
                       ticker |-> order.ticker,
                       quantity |-> quantity,
                       price |-> Slipped(TypicalPrice(ticker_data), order.type,
                                         cfg.slippage_percent),
                       commission |-> cfg.commission_per_trade]

\* execute_order(order, date, current_positions): a fill event, or None
execute_order(order, date, current_positions, table, cfg) ==
    LET execution_day == get_next_trading_day(date)
    IN  IF execution_day = NoDate THEN None
        ELSE LET ticker_data == get_latest_data(table, execution_day)[order.ticker]
             IN  IF ticker_data = None THEN None
                 ELSE IF TypicalPrice(ticker_data) = Zero THEN None
                 ELSE LET quantity == ResolveQuantity(order, current_positions)
                      IN  IF quantity <= 0 THEN None
                          ELSE [type |-> order.type,
                                ticker |-> order.ticker,
                                quantity |-> quantity,
                                price |-> Slipped(TypicalPrice(ticker_data), order.type,
                                                  cfg.slippage_percent),
                                commission |-> cfg.commission_per_trade]

\* ------------------------------------------------------------------------
\* Signal aggregation (Backtest.run, ranking and z-score normalisation)
\* ------------------------------------------------------------------------

\* daily_scores[daily_scores > 0] of a row with these columns, in column order
BuySignalsIn(columns, daily_scores) ==
    SelectIn(columns, {t \in DOMAIN daily_scores : daily_scores[t] > 0})

\* daily_scores[daily_scores > 0], in column order
BuySignals(daily_scores) == BuySignalsIn(tickers_to_trade, daily_scores)

\* mutant: rank(method='min'), which leaves a gap after tied candidates
DenseRankMin(daily_scores, buy_signals, ticker) ==
    1 + Cardinality({k \in DOMAIN buy_signals :
                        daily_scores[buy_signals[k]] > daily_scores[ticker]})

\* buy_signals.rank(method='dense', ascending=False)
DenseRank(daily_scores, buy_signals, ticker) ==
    1 + Cardinality({daily_scores[buy_signals[j]] : j \in
                        {k \in DOMAIN buy_signals :
                            daily_scores[buy_signals[k]] > daily_scores[ticker]}})

RECURSIVE SumOver(_, _)
SumOver(f, set) ==
    IF set = {} THEN Zero
    ELSE LET x == CHOOSE y \in set : TRUE IN RAdd(f[x], SumOver(f, set \ {x}))

\* the largest integer whose square is at most k, between lo and hi
RECURSIVE ISqrtIn(_, _, _)
ISqrtIn(k, lo, hi) ==
    IF lo >= hi THEN lo
    ELSE LET mid == (lo + hi + 1) \div 2
         IN  IF mid * mid <= k THEN ISqrtIn(k, mid, hi) ELSE ISqrtIn(k, lo, mid - 1)

\* the square root of a rational x >= 0, to three decimals
RSqrt(x) == Norm(ISqrtIn(x.n * x.d * 1000000, 0, 46340), x.d * 1000)

\* 1e-8
StdEps == Norm(1, 100000000)

\* std_dev_rank < 1e-8, for a rational of 32-bit terms: its numerator is at
\* most 21 when it is below 1e-8
BelowStdEps(x) == IF x.n > 21 THEN FALSE ELSE RLt(x, StdEps)

\* mutant: ranks.std(ddof=0), the population standard deviation
StdRankPopulation(ranks, cands, mean_rank) ==
    LET dev == [t \in cands |-> RMul(RSub(R(ranks[t]), mean_rank), RSub(R(ranks[t]), mean_rank))]
    IN  RSqrt(RDiv(SumOver(dev, cands), R(Cardinality(cands))))

\* ranks.std(): the sample standard deviation (pandas default, ddof = 1)
StdRank(ranks, cands, mean_rank) ==
    LET dev == [t \in cands |-> RMul(RSub(R(ranks[t]), mean_rank), RSub(R(ranks[t]), mean_rank))]
    IN  RSqrt(RDiv(SumOver(dev, cands), R(Cardinality(cands) - 1)))

\* mutant: only a single candidate skips the z-score
NormalizedScoresOnlySingle(daily_scores, buy_signals) ==
    LET cands == {buy_signals[i] : i \in DOMAIN buy_signals}
        ranks == [t \in cands |-> DenseRank(daily_scores, buy_signals, t)]
    IN  IF Len(buy_signals) <= 1 THEN [t \in cands |-> One]
        ELSE LET mean_rank == RDiv(SumOver([t \in cands |-> R(ranks[t])], cands),
                                   R(Cardinality(cands)))
                 std_dev_rank == StdRank(ranks, cands, mean_rank)
             IN  IF BelowStdEps(std_dev_rank) THEN [t \in cands |-> One]
                 ELSE [t \in cands |-> RDiv(RSub(mean_rank, R(ranks[t])), std_dev_rank)]

\* mutant: tied ranks give the z-score of the mean, 0
NormalizedScoresTieZero(daily_scores, buy_signals) ==
    LET cands == {buy_signals[i] : i \in DOMAIN buy_signals}
        ranks == [t \in cands |-> DenseRank(daily_scores, buy_signals, t)]
    IN  IF Len(buy_signals) <= 2 THEN [t \in cands |-> One]
        ELSE LET mean_rank == RDiv(SumOver([t \in cands |-> R(ranks[t])], cands),
                                   R(Cardinality(cands)))
                 std_dev_rank == StdRank(ranks, cands, mean_rank)
             IN  IF BelowStdEps(std_dev_rank) THEN [t \in cands |-> Zero]
                 ELSE [t \in cands |-> RDiv(RSub(mean_rank, R(ranks[t])), std_dev_rank)]

\* the normalized scores of one strategy's candidates: ticker -> score
NormalizedScores(daily_scores, buy_signals) ==
    LET cands == {buy_signals[i] : i \in DOMAIN buy_signals}
        ranks == [t \in cands |-> DenseRank(daily_scores, buy_signals, t)]
    IN  IF Len(buy_signals) <= 2 THEN [t \in cands |-> One]
        ELSE LET mean_rank == RDiv(SumOver([t \in cands |-> R(ranks[t])], cands),
                                   R(Cardinality(cands)))
                 std_dev_rank == StdRank(ranks, cands, mean_rank)
             IN  IF BelowStdEps(std_dev_rank) THEN [t \in cands |-> One]
                 ELSE [t \in cands |-> RDiv(RSub(mean_rank, R(ranks[t])), std_dev_rank)]

\* the loop `for ticker, score in normalized_scores.items()`, from candidate i on
RECURSIVE Accumulate(_, _, _, _)
Accumulate(agg, buy_signals, normalized_scores, i) ==
    IF i > Len(buy_signals) THEN agg
    ELSE LET ticker == buy_signals[i]
             score == normalized_scores[ticker]
             next == IF RLt(Zero, score)
                     THEN [keys |-> IF InSeq(ticker, agg.keys) THEN agg.keys
                                    ELSE Append(agg.keys, ticker),
                           val |-> [agg.val EXCEPT ![ticker] = RAdd(@, score)]]
                     ELSE agg
         IN  Accumulate(next, buy_signals, normalized_scores, i + 1)

\* the loop over individual_signals, from strategy i on; score_row is the
\* matrices' row of current_date
RECURSIVE AggregateFrom(_, _, _)
AggregateFrom(agg, score_row, i) ==
    IF i > Len(strategy_names) THEN agg
    ELSE LET daily_scores == score_row[i]
             buy_signals == BuySignals(daily_scores)
         IN  IF buy_signals = <<>> THEN AggregateFrom(agg, score_row, i + 1)
             ELSE AggregateFrom(
                     Accumulate(agg, buy_signals,
                                NormalizedScores(daily_scores, buy_signals), 1),
                     score_row, i + 1)

\* aggregated_scores_for_date: a defaultdict(float), keys in insertion order
AggregatedScores(score_row) ==
    AggregateFrom([keys |-> <<>>, val |-> [t \in Tickers |-> Zero]], score_row, 1)

\* ------------------------------------------------------------------------
\* Backtest.run
\* ------------------------------------------------------------------------

VARIABLES
    cfg,                        \* config['backtest_settings']
    table,                      \* DataHandler.data, by date: the rows read so far
    signals,                    \* individual_signals, by day: the rows read so far
    day,                        \* position of current_date in trading_days
    pc,                         \* position of the run inside the day's loop body
    portfolio,                  \* Backtest.portfolio
    equity_curve,               \* Backtest.equity_curve, by day
    days_since_last_rebalance,
    orders,                     \* exit_orders / rebalancing_orders being executed
    next_order,                 \* position of the order loop in orders
    sold_tickers,
    executed                    \* history: every order handed to execute_order, with its
                                \* fill (or None) and the day the fill was applied

\* the aggregation of one date's scores, on its own (Backtest.run, 285-317)
VARIABLES
    date_scores,                \* the matrices' row of the date: strategy -> ticker -> raw score
    strategy_index,             \* position of the loop over individual_signals
    score_strategy_names,       \* strategy_names, the class name of each strategy
    aggregated_scores_for_date, \* the defaultdict(float), as [keys, val]
    strategy_specific_scores,   \* the defaultdict(dict): ticker -> strategy name -> score
    normalized_history          \* history: the normalized_scores of each strategy, or None

\* the strategy loop of Backtest.__init__ (177-186)
VARIABLES
    strategies_config,          \* config['strategies']
    strategy_config_index,      \* position of the loop over config['strategies']
    strategies,                 \* self.strategies, by name
    warnings,                   \* the names printed as not found
    setup_pc                    \* "loop", "constructed" or "raised"

\* run_optimizer (41-97)
VARIABLES
    all_combinations,           \* list(generate_strategy_combinations(strategy_grid))
    run_index,                  \* i of the loop over all_combinations
    attempts,                   \* history: the scenarios tried, with how each ended
    sweep_pc                    \* "loop" or "finished"

run_vars == <<cfg, table, signals, day, pc, portfolio, equity_curve,
              days_since_last_rebalance, orders, next_order, sold_tickers, executed>>

aggregation_vars == <<date_scores, score_strategy_names, strategy_index,
                      aggregated_scores_for_date, strategy_specific_scores, normalized_history>>

setup_vars == <<strategies_config, strategy_config_index, strategies, warnings, setup_pc>>

sweep_vars == <<all_combinations, run_index, attempts, sweep_pc>>

vars == <<run_vars, aggregation_vars, setup_vars, sweep_vars>>

\* what Backtest.run leaves alone
beside_run == <<aggregation_vars, setup_vars, sweep_vars>>

\* no aggregation, setup or sweep in progress
NoAggregation ==
    /\ date_scores = <<>>
    /\ score_strategy_names = <<>>
    /\ strategy_index = 0
    /\ aggregated_scores_for_date = None
    /\ strategy_specific_scores = None
    /\ normalized_history = <<>>

NoSetup ==
    /\ strategies_config = <<>>
    /\ strategy_config_index = 0
    /\ strategies = <<>>
    /\ warnings = <<>>
    /\ setup_pc = "none"

NoSweep ==
    /\ all_combinations = <<>>
    /\ run_index = 0
    /\ attempts = <<>>
    /\ sweep_pc = "none"

\* no run of a Backtest in progress
NoRun ==
    /\ cfg = None
    /\ table = <<>>
    /\ signals = <<>>
    /\ day = 0
    /\ pc = "none"
    /\ portfolio = None
    /\ equity_curve = <<>>
    /\ days_since_last_rebalance = 0
    /\ orders = <<>>
    /\ next_order = 0
    /\ sold_tickers = {}
    /\ executed = <<>>

current_date == trading_days[day]

\* a row of the score matrices that no strategy has scored (fillna(0))
NoScores == [s \in DOMAIN strategy_names |-> [t \in Tickers |-> 0]]

\* Backtest.__init__ and the head of run, up to the day loop
Init ==
    /\ cfg \in Configs
    /\ \E first_row \in BarRows :
          table = [d \in Dates |-> IF d = trading_days[1] THEN first_row ELSE NoRow]
    /\ signals = [i \in 1..NumDays |-> NoScores]
    /\ day = 1
    /\ pc = "mark"
    /\ portfolio = NewPortfolio(cfg.initial_cash)
    /\ equity_curve = [i \in 1..NumDays |-> None]
    /\ days_since_last_rebalance = cfg.rebalancing_frequency
    /\ orders = <<>>
    /\ next_order = 1
    /\ sold_tickers = {}
    /\ executed = <<>>
    /\ NoAggregation /\ NoSetup /\ NoSweep

\* mutant: the equity record is written on rebalance days only
MarkToMarketOnRebalanceDays ==
    /\ pc = "mark"
    /\ \E next_row \in BarRows, score_row \in ScoreRows :
          /\ table' = IF day < NumDays
                      THEN [table EXCEPT ![trading_days[day + 1]] = next_row]
                      ELSE table
          /\ signals' = [signals EXCEPT ![day] = score_row]
    /\ portfolio' = UpdateValue(portfolio, get_latest_data(table, current_date))
    /\ equity_curve' = IF days_since_last_rebalance >= cfg.rebalancing_frequency
                       THEN [equity_curve EXCEPT ![day] = portfolio'.total_value]
                       ELSE equity_curve
    /\ pc' = "check"
    /\ UNCHANGED <<beside_run, cfg, day, days_since_last_rebalance, orders, next_order,
                   sold_tickers, executed>>

\* update_value(current_date) and the equity record; the next trading day's
\* bars and the day's scores are fixed here, before anything reads them
MarkToMarket ==
    /\ pc = "mark"
    /\ \E next_row \in BarRows, score_row \in ScoreRows :
          /\ table' = IF day < NumDays
                      THEN [table EXCEPT ![trading_days[day + 1]] = next_row]
                      ELSE table
          /\ signals' = [signals EXCEPT ![day] = score_row]
    /\ portfolio' = UpdateValue(portfolio, get_latest_data(table, current_date))
    /\ equity_curve' = [equity_curve EXCEPT ![day] = portfolio'.total_value]
    /\ pc' = "check"
    /\ UNCHANGED <<beside_run, cfg, day, days_since_last_rebalance, orders, next_order,
                   sold_tickers, executed>>

\* mutant: the exit rules are evaluated on every trading day
GenerateExitEveryDay ==
    /\ pc = "check"
    /\ orders' = generate_exit_orders(portfolio, get_latest_data(table, current_date), cfg)
    /\ next_order' = 1
    /\ sold_tickers' = {}
    /\ pc' = "exits"
    /\ UNCHANGED <<beside_run, cfg, table, signals, day, portfolio, equity_curve,
                   days_since_last_rebalance, executed>>

\* a rebalance day: generate_exit_orders(current_date)
GenerateExit ==
    /\ pc = "check"
    /\ days_since_last_rebalance >= cfg.rebalancing_frequency
    /\ orders' = generate_exit_orders(portfolio, get_latest_data(table, current_date), cfg)
    /\ next_order' = 1
    /\ sold_tickers' = {}
    /\ pc' = "exits"
    /\ UNCHANGED <<beside_run, cfg, table, signals, day, portfolio, equity_curve,
                   days_since_last_rebalance, executed>>

\* mutant: the day's equity record is rewritten after every fill
ExecuteThenRecord(order, is_exit) ==
    LET fill_event == execute_order(order, current_date, portfolio.positions, table, cfg)
    IN  /\ next_order' = next_order + 1
        /\ executed' = Append(executed, [order |-> order,
                                         order_date |-> current_date,
                                         fill |-> fill_event,
                                         applied_on |-> current_date])
        /\ IF fill_event # None
           THEN /\ portfolio' = update_positions_from_fill(portfolio, fill_event, current_date)
                /\ sold_tickers' = IF is_exit THEN sold_tickers \cup {fill_event.ticker}
                                   ELSE sold_tickers
                /\ equity_curve' =
                       [equity_curve EXCEPT ![day] =
                           UpdateValue(portfolio', get_latest_data(table, current_date)).total_value]
           ELSE UNCHANGED <<portfolio, sold_tickers, equity_curve>>
        /\ UNCHANGED <<beside_run, cfg, table, signals, day, pc,
                       days_since_last_rebalance, orders>>

\* mutant: the ticker of an exit fill is not added to sold_tickers
ExecuteForgetsExit(order, is_exit) ==
    LET fill_event == execute_order(order, current_date, portfolio.positions, table, cfg)
    IN  /\ next_order' = next_order + 1
        /\ executed' = Append(executed, [order |-> order,
                                         order_date |-> current_date,
                                         fill |-> fill_event,
                                         applied_on |-> current_date])
        /\ IF fill_event # None
           THEN portfolio' = update_positions_from_fill(portfolio, fill_event, current_date)
           ELSE UNCHANGED portfolio
        /\ UNCHANGED <<beside_run, cfg, table, signals, day, pc, equity_curve,
                       days_since_last_rebalance, orders, sold_tickers>>

\* the body of both order loops: execute_order, then update_positions_from_fill
\* when there is a fill
Execute(order, is_exit) ==
    LET fill_event == execute_order(order, current_date, portfolio.positions, table, cfg)
    IN  /\ next_order' = next_order + 1
        /\ executed' = Append(executed, [order |-> order,
                                         order_date |-> current_date,
                                         fill |-> fill_event,
                                         applied_on |-> current_date])
        /\ IF fill_event # None
           THEN /\ portfolio' = update_positions_from_fill(portfolio, fill_event, current_date)
                /\ sold_tickers' = IF is_exit THEN sold_tickers \cup {fill_event.ticker}
                                   ELSE sold_tickers
           ELSE UNCHANGED <<portfolio, sold_tickers>>
        /\ UNCHANGED <<beside_run, cfg, table, signals, day, pc, equity_curve,
                       days_since_last_rebalance, orders>>

ExecuteExitOrder ==
    /\ pc = "exits"
    /\ next_order <= Len(orders)
    /\ Execute(orders[next_order], TRUE)

\* the aggregation of the day's scores and generate_rebalancing_orders,
\* which marks to market again
GenerateRebalance ==
    /\ pc = "exits"
    /\ next_order > Len(orders)
    /\ LET latest_data == get_latest_data(table, current_date)
           valued == UpdateValue(portfolio, latest_data)
       IN  /\ portfolio' = valued
           /\ orders' = generate_rebalancing_orders(valued, latest_data,
                            AggregatedScores(signals[day]),
                            cfg.top_n_positions, sold_tickers)
    /\ next_order' = 1
    /\ pc' = "rebalance"
    /\ UNCHANGED <<beside_run, cfg, table, signals, day, equity_curve,
                   days_since_last_rebalance, sold_tickers, executed>>

ExecuteRebalanceOrder ==
    /\ pc = "rebalance"
    /\ next_order <= Len(orders)
    /\ Execute(orders[next_order], FALSE)

\* mutant: the counter restarts from 0 after a rebalance day
EndRebalanceFromZero ==
    /\ pc = "rebalance"
    /\ next_order > Len(orders)
    /\ days_since_last_rebalance' = 0
    /\ pc' = "log"
    /\ UNCHANGED <<beside_run, cfg, table, signals, day, portfolio, equity_curve,
                   orders, next_order, sold_tickers, executed>>

\* the counter is reset after a rebalance day
EndRebalance ==
    /\ pc = "rebalance"
    /\ next_order > Len(orders)
    /\ days_since_last_rebalance' = 1
    /\ pc' = "log"
    /\ UNCHANGED <<beside_run, cfg, table, signals, day, portfolio, equity_curve,
                   orders, next_order, sold_tickers, executed>>

\* not a rebalance day: the counter is incremented
SkipDay ==
    /\ pc = "check"
    /\ days_since_last_rebalance < cfg.rebalancing_frequency
    /\ days_since_last_rebalance' = days_since_last_rebalance + 1
    /\ pc' = "log"
    /\ UNCHANGED <<beside_run, cfg, table, signals, day, portfolio, equity_curve,
                   orders, next_order, sold_tickers, executed>>

\* log_portfolio_state, then the next trading day or the end of the loop
LogDay ==
    /\ pc = "log"
    /\ IF day < NumDays
       THEN day' = day + 1 /\ pc' = "mark"
       ELSE day' = day /\ pc' = "done"
    /\ UNCHANGED <<beside_run, cfg, table, signals, portfolio, equity_curve,
                   days_since_last_rebalance, orders, next_order, sold_tickers, executed>>

Next ==
    \/ MarkToMarket
    \/ GenerateExit
    \/ ExecuteExitOrder
    \/ GenerateRebalance
    \/ ExecuteRebalanceOrder
    \/ EndRebalance
    \/ SkipDay
    \/ LogDay

Spec == Init /\ [][Next]_vars

\* ------------------------------------------------------------------------
\* The exit phase of a rebalance day, on a position bought at 100
\* ------------------------------------------------------------------------

\* bars of an instrument trading around 100: the day's low above, at and
\* below 90, and a day without a row
BarsAround100 == {Bar(100, 104, 91, 100), Bar(100, 100, 90, 95), Bar(95, 96, 80, 85), None}

\* bars of the following trading day, the untradeable ones among them
NextBarsAround100 == {Bar(90, 96, 84, 90), Bar(80, 81, 78, 81), Bar(100, 110, 100, 102),
                      BarZero, None}

StopLossConfigs ==
    { Config(1, 1, Pct(10), None, R(1), Norm(1, 10), R(10000)),
      Config(1, 1, Pct(10), Pct(50), Zero, Zero, R(10000)) }

\* the fill that opened the position: n shares at 100
BuyAt100(n, commission) ==
    [type |-> "BUY", ticker |-> "a", quantity |-> n, price |-> R(100),
     commission |-> commission]

\* the second trading day of a run that bought n shares of instrument a at
\* 100 on the first, after the day's mark-to-market
InitStopLoss ==
    /\ cfg \in StopLossConfigs
    /\ \E today \in BarsAround100, next \in NextBarsAround100 :
          table = [d \in Dates |->
                      IF d = trading_days[1] THEN [t \in Tickers |-> Bar(100, 100, 100, 100)]
                      ELSE IF d = trading_days[2] THEN [t \in Tickers |-> IF t = "a" THEN today ELSE None]
                      ELSE IF d = trading_days[3] THEN [t \in Tickers |-> IF t = "a" THEN next ELSE None]
                      ELSE NoRow]
    /\ signals = [i \in 1..NumDays |-> NoScores]
    /\ day = 2
    /\ pc = "check"
    /\ \E n \in {1, 5, 12} :
          LET fill_event == BuyAt100(n, cfg.commission_per_trade)
          IN  /\ portfolio = UpdateValue(
                                update_positions_from_fill(NewPortfolio(cfg.initial_cash),
                                                           fill_event, trading_days[1]),
                                get_latest_data(table, trading_days[2]))
              /\ executed = <<[order |-> Order("BUY", "a", Shares(n)),
                               order_date |-> trading_days[1],
                               fill |-> fill_event,
                               applied_on |-> trading_days[1]]>>
    /\ equity_curve = [i \in 1..NumDays |->
                          IF i = 1 THEN cfg.initial_cash
                          ELSE IF i = 2 THEN portfolio.total_value ELSE None]
    /\ days_since_last_rebalance = 1
    /\ orders = <<>>
    /\ next_order = 1
    /\ sold_tickers = {}
    /\ NoAggregation /\ NoSetup /\ NoSweep

NextStopLoss ==
    \/ GenerateExit
    \/ ExecuteExitOrder

SpecStopLoss == InitStopLoss /\ [][NextStopLoss]_vars

\* ------------------------------------------------------------------------
\* The aggregation of one rebalance day's scores, over four instruments and
\* two providers
\* ------------------------------------------------------------------------

\* the columns of the aligned score matrices
score_columns == <<"a", "b", "c", "d">>

ScoreColumnSet == {score_columns[i] : i \in DOMAIN score_columns}

\* the raw scores of the date: the first provider scores 0..3, the second
\* gives its sell trigger -1 or the score 4
DateScores ==
    { <<first, second>> : first \in [ScoreColumnSet -> 0..3],
                          second \in [ScoreColumnSet -> {-1, 4}] }

\* strategy.__class__.__name__ of the two strategies: of two classes, or two
\* instances of one class with different parameters
StrategyNameLists ==
    {<<"MomentumStrategy", "RsiStrategy">>, <<"MomentumStrategy", "MomentumStrategy">>}

\* strategy_specific_scores before the loop: no entry for any ticker
NoSpecificScores == [t \in ScoreColumnSet |-> [name \in {} |-> Zero]]

\* strategy_specific_scores[ticker][strategy_name] = score, for the
\* candidates with a normalized score above 0
SpecificScores(specific, buy_signals, normalized_scores, strategy_name) ==
    [t \in DOMAIN specific |->
        IF InSeq(t, buy_signals) /\ RLt(Zero, normalized_scores[t])
        THEN [name \in DOMAIN specific[t] \cup {strategy_name} |->
                 IF name = strategy_name THEN normalized_scores[t] ELSE specific[t][name]]
        ELSE specific[t]]

InitAggregation ==
    /\ date_scores \in DateScores
    /\ score_strategy_names \in StrategyNameLists
    /\ strategy_index = 1
    /\ aggregated_scores_for_date = [keys |-> <<>>, val |-> [t \in ScoreColumnSet |-> Zero]]
    /\ strategy_specific_scores = NoSpecificScores
    /\ normalized_history = <<>>
    /\ NoRun /\ NoSetup /\ NoSweep

\* an iteration for a strategy without a score > 0: `continue`
NoBuySignals ==
    /\ strategy_index \in DOMAIN date_scores
    /\ BuySignalsIn(score_columns, date_scores[strategy_index]) = <<>>
    /\ strategy_index' = strategy_index + 1
    /\ normalized_history' = Append(normalized_history, None)
    /\ UNCHANGED <<date_scores, score_strategy_names, aggregated_scores_for_date,
                   strategy_specific_scores, run_vars, setup_vars, sweep_vars>>

\* an iteration for a strategy with candidates: ranks, normalized scores and
\* the accumulation of the scores > 0
NormalizeAndAccumulate ==
    /\ strategy_index \in DOMAIN date_scores
    /\ LET daily_scores == date_scores[strategy_index]
           buy_signals == BuySignalsIn(score_columns, daily_scores)
           normalized_scores == NormalizedScores(daily_scores, buy_signals)
           accumulated == Accumulate(aggregated_scores_for_date, buy_signals,
                                     normalized_scores, 1)
       IN  /\ buy_signals # <<>>
           /\ aggregated_scores_for_date' = accumulated
           /\ strategy_specific_scores' =
                  SpecificScores(strategy_specific_scores, buy_signals, normalized_scores,
                                 score_strategy_names[strategy_index])
           /\ normalized_history' =
                  Append(normalized_history,
                         [buy_signals |-> buy_signals,
                          ranks |-> [t \in {buy_signals[k] : k \in DOMAIN buy_signals} |->
                                        DenseRank(daily_scores, buy_signals, t)],
                          normalized_scores |-> normalized_scores,
                          contribution |->
                              [t \in ScoreColumnSet |->
                                  RSub(accumulated.val[t], aggregated_scores_for_date.val[t])]])
    /\ strategy_index' = strategy_index + 1
    /\ UNCHANGED <<date_scores, score_strategy_names, run_vars, setup_vars, sweep_vars>>

NextAggregation ==
    \/ NoBuySignals
    \/ NormalizeAndAccumulate

SpecAggregation == InitAggregation /\ [][NextAggregation]_vars

\* ------------------------------------------------------------------------
\* The rebalancing phase of a day over four instruments: the aggregation of
\* the day's scores, then generate_rebalancing_orders
\* ------------------------------------------------------------------------

\* one bar at 100 for every instrument of the score matrices
RowAt100 == [t \in ScoreColumnSet |-> Bar(100, 100, 100, 100)]

\* the fills applied before the rebalancing phase: 5 shares of a and of b
\* bought at 100 on the first day and, when exited is set, a sold by an exit
\* order of the second
FillsBefore(exited) ==
    <<[order |-> Order("BUY", "a", Shares(5)), order_date |-> trading_days[1],
       fill |-> [type |-> "BUY", ticker |-> "a", quantity |-> 5, price |-> R(100),
                 commission |-> Zero],
       applied_on |-> trading_days[1]],
      [order |-> Order("BUY", "b", Shares(5)), order_date |-> trading_days[1],
       fill |-> [type |-> "BUY", ticker |-> "b", quantity |-> 5, price |-> R(100),
                 commission |-> Zero],
       applied_on |-> trading_days[1]]>>
    \o (IF exited
        THEN <<[order |-> Order("SELL", "a", ALL), order_date |-> trading_days[2],
                fill |-> [type |-> "SELL", ticker |-> "a", quantity |-> 5, price |-> R(90),
                          commission |-> Zero],
                applied_on |-> trading_days[2]]>>
        ELSE <<>>)

\* the portfolio after these fills, from portfolio P on
RECURSIVE AfterFills(_, _)
AfterFills(P, fills) ==
    IF fills = <<>> THEN P
    ELSE AfterFills(update_positions_from_fill(P, Head(fills).fill, Head(fills).applied_on),
                    Tail(fills))

\* the second trading day, a rebalance day, after its exit-order loop
InitRebalance ==
    /\ cfg \in {Config(1, top_n, None, None, Zero, Zero, R(1500)) : top_n \in 1..3}
    /\ table = [d \in Dates |-> RowAt100]
    /\ signals = [i \in 1..NumDays |-> NoScores]
    /\ day = 2
    /\ pc = "exits"
    /\ \E exited \in BOOLEAN :
          /\ executed = FillsBefore(exited)
          /\ sold_tickers = IF exited THEN {"a"} ELSE {}
    /\ portfolio =
           UpdateValue(
               AfterFills([cash |-> cfg.initial_cash,
                           positions |-> [t \in ScoreColumnSet |-> NewPosition],
                           keys |-> <<>>,
                           total_value |-> cfg.initial_cash,
                           realized_pnl |-> Zero,
                           trade_history |-> [t \in ScoreColumnSet |-> <<>>]],
                          executed),
               get_latest_data(table, current_date))
    /\ equity_curve = [i \in 1..NumDays |-> IF i <= day THEN portfolio.total_value ELSE None]
    /\ days_since_last_rebalance = 1
    /\ orders = <<>>
    /\ next_order = 1
    /\ date_scores \in DateScores
    /\ score_strategy_names = <<"MomentumStrategy", "RsiStrategy">>
    /\ strategy_index = 1
    /\ aggregated_scores_for_date = [keys |-> <<>>, val |-> [t \in ScoreColumnSet |-> Zero]]
    /\ strategy_specific_scores = NoSpecificScores
    /\ normalized_history = <<>>
    /\ NoSetup /\ NoSweep

\* after the loop over individual_signals: generate_rebalancing_orders on the
\* scores aggregated by it
RebalanceOnAggregatedScores ==
    /\ pc = "exits"
    /\ date_scores # <<>>
    /\ strategy_index > Len(date_scores)
    /\ LET latest_data == get_latest_data(table, current_date)
           valued == UpdateValue(portfolio, latest_data)
       IN  /\ portfolio' = valued
           /\ orders' = generate_rebalancing_orders(valued, latest_data,
                            aggregated_scores_for_date,
                            cfg.top_n_positions, sold_tickers)
    /\ next_order' = 1
    /\ pc' = "rebalance"
    /\ UNCHANGED <<beside_run, cfg, table, signals, day, equity_curve,
                   days_since_last_rebalance, sold_tickers, executed>>

NextRebalance ==
    \/ NoBuySignals
    \/ NormalizeAndAccumulate
    \/ RebalanceOnAggregatedScores

SpecRebalance == InitRebalance /\ [][NextRebalance]_vars

\* ------------------------------------------------------------------------
\* execute_order and the loop body that calls it, on orders of every kind
\* ------------------------------------------------------------------------

\* orders with a quantity above 0 and orders that resolve to no quantity:
\* a SELL of all shares of an instrument that is not held, a quantity of 0
OrdersToExecute ==
    { Order("SELL", "a", ALL), Order("BUY", "a", Shares(3)), Order("SELL", "a", Shares(2)),
      Order("SELL", "b", ALL), Order("BUY", "b", Shares(0)) }

\* inside an order loop of the second or the last trading day, with a
\* position of 5 shares of instrument a bought at 100 and none of b
InitExecuteOrder ==
    /\ cfg \in StopLossConfigs
    /\ \E next \in NextBarsAround100 :
          table = [d \in Dates |->
                      IF d \in {trading_days[1], trading_days[2]}
                      THEN [t \in Tickers |-> Bar(100, 100, 100, 100)]
                      ELSE IF d = trading_days[3] THEN [t \in Tickers |-> next]
                      ELSE NoRow]
    /\ signals = [i \in 1..NumDays |-> NoScores]
    /\ day \in {2, NumDays}
    /\ pc \in {"exits", "rebalance"}
    /\ LET fill_event == BuyAt100(5, cfg.commission_per_trade)
       IN  /\ portfolio = UpdateValue(
                             update_positions_from_fill(NewPortfolio(cfg.initial_cash),
                                                        fill_event, trading_days[1]),
                             get_latest_data(table, current_date))
           /\ executed = <<[order |-> Order("BUY", "a", Shares(5)),
                            order_date |-> trading_days[1],
                            fill |-> fill_event,
                            applied_on |-> trading_days[1]]>>
    /\ equity_curve = [i \in 1..NumDays |-> IF i <= day THEN portfolio.total_value ELSE None]
    /\ days_since_last_rebalance = 1
    /\ orders \in [1..2 -> OrdersToExecute]
    /\ next_order = 1
    /\ sold_tickers = {}
    /\ NoAggregation /\ NoSetup /\ NoSweep

NextExecuteOrder ==
    \/ ExecuteExitOrder
    \/ ExecuteRebalanceOrder

SpecExecuteOrder == InitExecuteOrder /\ [][NextExecuteOrder]_vars

\* ------------------------------------------------------------------------
\* Backtest.__init__: the strategies named by the configuration
\* ------------------------------------------------------------------------

\* the longest config['strategies'] considered
MaxStrategies == 3

\* the sequences over S of length at most n
SeqsUpTo(S, n) == UNION {[1..k -> S] : k \in 0..n}

\* keys of STRATEGY_MAPPING
STRATEGY_MAPPING == {"MomentumStrategy", "RsiStrategy", "KeltnerStrategy"}

\* an entry of config['strategies']; enabled is strat_config.get('enabled', True)
StrategyConfigs ==
    [name : {"MomentumStrategy", "RsiStrategy", "NoSuchStrategy"}, enabled : BOOLEAN]

InitSetup ==
    /\ strategies_config \in SeqsUpTo(StrategyConfigs, MaxStrategies)
    /\ strategy_config_index = 1
    /\ strategies = <<>>
    /\ warnings = <<>>
    /\ setup_pc = "loop"
    /\ NoRun /\ NoAggregation /\ NoSweep

\* the entry the loop is at
strat_config == strategies_config[strategy_config_index]

InStrategyLoop == setup_pc = "loop" /\ strategy_config_index \in DOMAIN strategies_config

\* an entry that is not enabled is passed over
SkipDisabled ==
    /\ InStrategyLoop
    /\ ~strat_config.enabled
    /\ strategy_config_index' = strategy_config_index + 1
    /\ UNCHANGED <<strategies_config, strategies, warnings, setup_pc,
                   run_vars, aggregation_vars, sweep_vars>>

\* an enabled entry named in STRATEGY_MAPPING: its strategy is instantiated
AppendStrategy ==
    /\ InStrategyLoop
    /\ strat_config.enabled
    /\ strat_config.name \in STRATEGY_MAPPING
    /\ strategies' = Append(strategies, strat_config.name)
    /\ strategy_config_index' = strategy_config_index + 1
    /\ UNCHANGED <<strategies_config, warnings, setup_pc,
                   run_vars, aggregation_vars, sweep_vars>>

\* an enabled entry with a name that is not in STRATEGY_MAPPING: a warning
\* is printed and the loop goes on
WarnNotFound ==
    /\ InStrategyLoop
    /\ strat_config.enabled
    /\ strat_config.name \notin STRATEGY_MAPPING
    /\ warnings' = Append(warnings, strat_config.name)
    /\ strategy_config_index' = strategy_config_index + 1
    /\ UNCHANGED <<strategies_config, strategies, setup_pc,
                   run_vars, aggregation_vars, sweep_vars>>

\* the rest of __init__: the portfolio, the calendar, the execution handler
FinishInit ==
    /\ setup_pc = "loop"
    /\ strategy_config_index > Len(strategies_config)
    /\ setup_pc' = "constructed"
    /\ UNCHANGED <<strategies_config, strategy_config_index, strategies, warnings,
                   run_vars, aggregation_vars, sweep_vars>>

NextSetup ==
    \/ SkipDisabled
    \/ AppendStrategy
    \/ WarnNotFound
    \/ FinishInit

SpecSetup == InitSetup /\ [][NextSetup]_vars

\* ------------------------------------------------------------------------
\* run_optimizer: the sweep over the strategy-parameter combinations
\* ------------------------------------------------------------------------

\* the longest strategy_grid considered
MaxGridStrategies == 2

\* an entry of strategy_grid: a name, the enabled flag and the values of its
\* one parameter, window
GridEntries ==
    [name : {"MomentumStrategy", "RsiStrategy"}, enabled : BOOLEAN,
     window : {<<5>>, <<5, 10>>, <<5, 10, 20>>}]

\* strategy_param_options: for each enabled entry, the list of its
\* {'name', 'params'} choices
RECURSIVE StrategyParamOptions(_)
StrategyParamOptions(strategy_grid) ==
    IF strategy_grid = <<>> THEN <<>>
    ELSE LET strategy_config == Head(strategy_grid)
             rest == StrategyParamOptions(Tail(strategy_grid))
         IN  IF ~strategy_config.enabled THEN rest
             ELSE <<[k \in DOMAIN strategy_config.window |->
                        [name |-> strategy_config.name,
                         params |-> [window |-> strategy_config.window[k]]]]>> \o rest

\* seqs, each with x put in front
RECURSIVE Prefixed(_, _)
Prefixed(x, seqs) ==
    IF seqs = <<>> THEN <<>> ELSE <<(<<x>> \o Head(seqs))>> \o Prefixed(x, Tail(seqs))

\* itertools.product(*options), the last position varying fastest
RECURSIVE Product(_)
Product(options) ==
    IF options = <<>> THEN << <<>> >>
    ELSE LET rest == Product(Tail(options))
             from(k) == Prefixed(Head(options)[k], rest)
             RECURSIVE upto(_)
             upto(k) == IF k = 0 THEN <<>> ELSE upto(k - 1) \o from(k)
         IN  upto(Len(Head(options)))

\* list(generate_strategy_combinations(strategy_grid))
generate_strategy_combinations(strategy_grid) == Product(StrategyParamOptions(strategy_grid))

\* the parameters Backtest.__init__ requires besides self
BacktestInitParameters == {"config", "data_path"}

\* the keyword arguments of the call Backtest(config=current_config)
BacktestCallArguments == {"config"}

\* how the try block ends: the call raises TypeError when a required
\* parameter gets no argument
TryBacktest(current_config) ==
    IF BacktestInitParameters \ BacktestCallArguments # {} THEN "TypeError"
    ELSE "completed"

InitSweep ==
    /\ \E strategy_grid \in SeqsUpTo(GridEntries, MaxGridStrategies) :
          all_combinations = generate_strategy_combinations(strategy_grid)
    /\ run_index = 1
    /\ attempts = <<>>
    /\ sweep_pc = "loop"
    /\ NoRun /\ NoAggregation /\ NoSetup

\* mutant: the exception of a scenario is not caught and ends the sweep
AttemptScenarioUncaught ==
    /\ sweep_pc = "loop"
    /\ run_index \in DOMAIN all_combinations
    /\ LET outcome == TryBacktest(all_combinations[run_index])
       IN  /\ attempts' = Append(attempts, [run_number |-> run_index,
                                            strategies |-> all_combinations[run_index],
                                            outcome |-> outcome])
           /\ sweep_pc' = IF outcome = "completed" THEN "loop" ELSE "aborted"
    /\ run_index' = run_index + 1
    /\ UNCHANGED <<all_combinations, run_vars, aggregation_vars, setup_vars>>

\* one iteration of the loop: the scenario's configuration, the try block
\* and, when it raises, the except block
AttemptScenario ==
    /\ sweep_pc = "loop"
    /\ run_index \in DOMAIN all_combinations
    /\ attempts' = Append(attempts, [run_number |-> run_index,
                                     strategies |-> all_combinations[run_index],
                                     outcome |-> TryBacktest(all_combinations[run_index])])
    /\ run_index' = run_index + 1
    /\ UNCHANGED <<all_combinations, sweep_pc, run_vars, aggregation_vars, setup_vars>>

\* after the loop: "Optimizer Run Finished"
FinishSweep ==
    /\ sweep_pc = "loop"
    /\ run_index > Len(all_combinations)
    /\ sweep_pc' = "finished"
    /\ UNCHANGED <<all_combinations, run_index, attempts, run_vars, aggregation_vars, setup_vars>>

NextSweep ==
    \/ AttemptScenario
    \/ FinishSweep

SpecSweep == InitSweep /\ [][NextSweep]_vars

\* ------------------------------------------------------------------------
\* Properties
\* ------------------------------------------------------------------------

\* the entries of the execution history that carry a fill
Filled == {i \in DOMAIN executed : executed[i].fill # None}

CalendarDates == {trading_days[i] : i \in DOMAIN trading_days}

\* the dates of the calendar strictly after date
DatesAfter(date) == {c \in CalendarDates : c > date}

\* the smallest calendar date greater than date, when there is one
FirstDateAfter(date) == CHOOSE c \in DatesAfter(date) : \A c2 \in DatesAfter(date) : c <= c2

\* the price a fill of this order type takes from a bar
PriceFrom(bar, type) == Slipped(TypicalPrice(bar), type, cfg.slippage_percent)

\* C1: every fill of an order generated on day D has the price of the bar of
\* the first calendar date strictly after D
C1_FillPriceFromNextCalendarDate ==
    \A i \in Filled :
        LET e == executed[i]
        IN  /\ DatesAfter(e.order_date) # {}
            /\ HasBar(table[FirstDateAfter(e.order_date)], e.fill.ticker)
            /\ e.fill.price =
                   PriceFrom(table[FirstDateAfter(e.order_date)][e.fill.ticker], e.fill.type)

\* C1 witness: an order generated on date 2 is filled across the calendar gap,
\* at the price of date 4, which is not the price its own day's bar would give
C1_Witness ==
    \E i \in Filled :
        LET e == executed[i]
        IN  /\ e.order_date = 2
            /\ FirstDateAfter(e.order_date) = 4
            /\ HasBar(table[e.order_date], e.fill.ticker)
            /\ e.fill.price # PriceFrom(table[e.order_date][e.fill.ticker], e.fill.type)

\* the exit-order loop run to its end from order i on: the portfolio and the
\* sold tickers it leaves
RECURSIVE ExitLoop(_, _, _, _, _, _)
ExitLoop(P, sold, exit_orders, i, date, tbl) ==
    IF i > Len(exit_orders) THEN [portfolio |-> P, sold_tickers |-> sold]
    ELSE LET fill_event == execute_order(exit_orders[i], date, P.positions, tbl, cfg)
         IN  IF fill_event # None
             THEN ExitLoop(update_positions_from_fill(P, fill_event, date),
                           sold \cup {fill_event.ticker}, exit_orders, i + 1, date, tbl)
             ELSE ExitLoop(P, sold, exit_orders, i + 1, date, tbl)

\* the orders a rebalance day generates, exit orders then rebalancing orders,
\* from the portfolio P the day starts with and the price table tbl
OrdersOfDay(P, tbl) ==
    LET latest_data == get_latest_data(tbl, current_date)
        exit_orders == generate_exit_orders(P, latest_data, cfg)
        after == ExitLoop(P, {}, exit_orders, 1, current_date, tbl)
    IN  <<exit_orders,
          generate_rebalancing_orders(UpdateValue(after.portfolio, latest_data), latest_data,
                                      AggregatedScores(signals[day]),
                                      cfg.top_n_positions, after.sold_tickers)>>

\* the price table with every row dated after current_date replaced by row
WithFuture(row) ==
    [d \in Dates |-> IF d > current_date /\ d \in CalendarDates THEN row ELSE table[d]]

\* C2 (the claim as stated): on a rebalance day the orders generated do not
\* depend on the bars dated after that day
C2_OrdersIgnoreFutureBars ==
    (pc = "check" /\ days_since_last_rebalance >= cfg.rebalancing_frequency)
        => \A row \in BarRows : OrdersOfDay(portfolio, WithFuture(row)) = OrdersOfDay(portfolio, table)

\* C3 (the claim as stated): a fill is applied to the ledger on a trading day
\* later than the day its order was generated
C3_FillAppliedAfterOrderDay ==
    \A i \in Filled : executed[i].applied_on > executed[i].order_date

\* the states that immediately follow a call of update_value(current_date):
\* the daily mark-to-market and the one inside generate_rebalancing_orders
JustValued == pc = "check" \/ (pc = "rebalance" /\ next_order = 1)

Held == {t \in Tickers : portfolio.positions[t].shares > 0}

\* the dates up to date on which ticker has a bar
BarDatesUpTo(ticker, date) == {d \in Dates : d <= date /\ HasBar(table[d], ticker)}

\* the most recent close of ticker at or before date
LatestClose(ticker, date) ==
    LET last == CHOOSE d \in BarDatesUpTo(ticker, date) :
                    \A d2 \in BarDatesUpTo(ticker, date) : d2 <= d
    IN  R(table[last][ticker].close)

HeldWithBar == {t \in Held : HasBar(table[current_date], t)}

C5_SharesNeverNegative ==
    \A t \in Tickers : portfolio.positions[t].shares \in Nat

\* C5 witness: a SELL of a stated quantity and a SELL ALL have both been applied
C5_Witness ==
    /\ \E i \in Filled : executed[i].fill.type = "SELL" /\ executed[i].order.quantity = ALL
    /\ \E i \in Filled : executed[i].fill.type = "SELL" /\ executed[i].order.quantity # ALL

\* the step hands one order to execute_order; Outcome is its history entry
ExecutionStep == Len(executed') = Len(executed) + 1

Outcome == executed'[Len(executed')]

\* the step applies a fill of this type to the ledger
FillStep(type) == ExecutionStep /\ Outcome.fill # None /\ Outcome.fill.type = type

\* quantity x price of a fill
TradeCost(fill_event) == RMul(R(fill_event.quantity), fill_event.price)

\* the fills of ticker in the execution history, in order
FillsOf(ticker) ==
    SelectSeq(executed, LAMBDA e : e.fill # None /\ e.fill.ticker = ticker)

\* C6, one BUY: s shares at basis b become s + q shares at basis
\* (s x b + q x p) / (s + q), with entry_date the date of the fill, and cash
\* falls by q x p and the commission
C6_BuyStep ==
    FillStep("BUY") =>
        LET f == Outcome.fill
            old == portfolio.positions[f.ticker]
            new == portfolio'.positions[f.ticker]
        IN  /\ new.shares = old.shares + f.quantity
            /\ new.purchase_price =
                   RDiv(RAdd(RMul(R(old.shares), old.purchase_price), TradeCost(f)),
                        R(old.shares + f.quantity))
            /\ new.entry_date = Outcome.applied_on
            /\ RAdd(portfolio'.cash, f.commission) = RSub(portfolio.cash, TradeCost(f))

\* C6, two BUYs from an empty position: basis (q1 x p1 + q2 x p2) / (q1 + q2)
C6_TwoBuys ==
    \A t \in Tickers :
        LET h == FillsOf(t)
        IN  (Len(h) = 2 /\ h[1].fill.type = "BUY" /\ h[2].fill.type = "BUY") =>
                portfolio.positions[t].purchase_price =
                    RDiv(RAdd(TradeCost(h[1].fill), TradeCost(h[2].fill)),
                         R(h[1].fill.quantity + h[2].fill.quantity))

\* C6: a BUY fill of q at p on s shares at basis b leaves s + q shares at
\* basis (s x b + q x p) / (s + q), sets entry_date to the fill date and
\* lowers cash by q x p before commission; two BUYs from an empty position
\* give basis (q1 x p1 + q2 x p2) / (q1 + q2)
C6_BuyAveragesBasis == [][C6_BuyStep]_vars /\ []C6_TwoBuys

\* C6 witness: a second BUY, at another price, has been applied to a position
\* that held shares
C6_Witness ==
    \E t \in Tickers :
        LET h == FillsOf(t)
        IN  /\ Len(h) = 2 /\ h[1].fill.type = "BUY" /\ h[2].fill.type = "BUY"
            /\ h[1].fill.price # h[2].fill.price

\* C7: a SELL fill of all n held shares at p, on basis b, adds (p - b) x n to
\* realized_pnl, appends one trade_history record of the instrument with that
\* P&L, the entry date and the exit date, raises cash by n x p before
\* commission and resets shares, basis and entry_date
C7_SellAllStep ==
    (FillStep("SELL") /\ Outcome.fill.quantity = portfolio.positions[Outcome.fill.ticker].shares) =>
        LET f == Outcome.fill
            old == portfolio.positions[f.ticker]
            pnl == RMul(RSub(f.price, old.purchase_price), R(old.shares))
        IN  /\ portfolio'.realized_pnl = RAdd(portfolio.realized_pnl, pnl)
            /\ portfolio'.trade_history =
                   [portfolio.trade_history EXCEPT
                       ![f.ticker] = Append(@, [pnl |-> pnl,
                                                entry_date |-> old.entry_date,
                                                exit_date |-> Outcome.applied_on])]
            /\ old.entry_date # NoDate
            /\ RAdd(portfolio'.cash, f.commission) =
                   RAdd(portfolio.cash, RMul(R(old.shares), f.price))
            /\ portfolio'.positions[f.ticker] =
                   [shares |-> 0, purchase_price |-> Zero, entry_date |-> NoDate]

C7_SellAllClosesRoundTrip == [][C7_SellAllStep]_vars

\* C7 witness: the latest fill sold a whole position, at a price other than
\* its basis
C7_Witness ==
    /\ executed # <<>>
    /\ LET e == executed[Len(executed)]
       IN  /\ e.fill # None
           /\ e.fill.type = "SELL"
           /\ portfolio.positions[e.fill.ticker].shares = 0
           /\ portfolio.trade_history[e.fill.ticker] # <<>>
           /\ portfolio.realized_pnl # Zero

\* C8 (the claim as stated): a SELL fill that leaves shares > 0 appends no
\* trade_history record
C8_PartialSellStep ==
    (FillStep("SELL") /\ portfolio'.positions[Outcome.fill.ticker].shares > 0) =>
        portfolio'.trade_history = portfolio.trade_history

SellsOf(ticker) == SelectSeq(FillsOf(ticker), LAMBDA e : e.fill.type = "SELL")

\* C8 (amended): every SELL fill adds its P&L to realized_pnl and appends one
\* trade_history record of its instrument carrying that P&L, whether it
\* closes the position or leaves shares > 0 (a BUY fill appends none); so the
\* records of an instrument are as many as the SELL fills applied to it
C8_RecordStep ==
    ExecutionStep =>
        IF Outcome.fill # None /\ Outcome.fill.type = "SELL"
        THEN LET f == Outcome.fill
                 old == portfolio.positions[f.ticker]
                 pnl == RMul(RSub(f.price, old.purchase_price), R(f.quantity))
             IN  /\ portfolio'.realized_pnl = RAdd(portfolio.realized_pnl, pnl)
                 /\ portfolio'.trade_history =
                        [portfolio.trade_history EXCEPT
                            ![f.ticker] = Append(@, [pnl |-> pnl,
                                                     entry_date |-> old.entry_date,
                                                     exit_date |-> Outcome.applied_on])]
        ELSE portfolio'.trade_history = portfolio.trade_history

C8_RecordsMatchSells ==
    \A t \in Tickers :
        /\ Len(portfolio.trade_history[t]) = Len(SellsOf(t))
        /\ \A k \in DOMAIN portfolio.trade_history[t] :
              portfolio.trade_history[t][k].exit_date = SellsOf(t)[k].applied_on

C9_CashStep ==
    ExecutionStep =>
        IF Outcome.fill = None THEN portfolio'.cash = portfolio.cash
        ELSE IF Outcome.fill.type = "BUY"
        THEN portfolio'.cash =
                 RSub(RSub(portfolio.cash, TradeCost(Outcome.fill)), cfg.commission_per_trade)
        ELSE portfolio'.cash =
                 RSub(RAdd(portfolio.cash, TradeCost(Outcome.fill)), cfg.commission_per_trade)

C9_CommissionOncePerFill == [][C9_CashStep]_vars

\* C9 witness: with a commission set, a BUY and a SELL have been filled and
\* another order has ended without a fill
C9_Witness ==
    /\ cfg.commission_per_trade # Zero
    /\ \E i \in Filled : executed[i].fill.type = "BUY"
    /\ \E i \in Filled : executed[i].fill.type = "SELL"
    /\ \E i \in DOMAIN executed : executed[i].fill = None

\* C10: the rebalance days are the trading days at calendar positions 0, K,
\* 2K, ... (day - 1 a multiple of K), the first trading day among them
C10_RebalanceEveryKthDay ==
    /\ (pc = "check") =>
          ((days_since_last_rebalance >= cfg.rebalancing_frequency)
              <=> ((day - 1) % cfg.rebalancing_frequency = 0))
    /\ (pc \in {"exits", "rebalance"}) => ((day - 1) % cfg.rebalancing_frequency = 0)
    /\ (pc = "log" /\ (day - 1) % cfg.rebalancing_frequency = 0)
          => days_since_last_rebalance = 1

\* C10 witness: with K = 2 the run rebalances again on the third trading day,
\* having skipped the second
C10_Witness ==
    /\ cfg.rebalancing_frequency = 2
    /\ day = 3
    /\ pc = "rebalance"
    /\ equity_curve[2] # None

\* a trading day on which the test days_since_last_rebalance >= K fails: the
\* counter is below K until SkipDay has incremented it, and above 1 after
NonRebalanceDay ==
    \/ pc \in {"mark", "check", "exits", "rebalance"}
          /\ days_since_last_rebalance < cfg.rebalancing_frequency
    \/ pc = "log" /\ days_since_last_rebalance > 1

\* a held instrument whose bar of current_date meets its stop-loss or its
\* take-profit condition
ExitConditionMet(t) ==
    /\ portfolio.positions[t].shares > 0
    /\ HasBar(table[current_date], t)
    /\ \/ StopLossHit(portfolio.positions[t], table[current_date][t], cfg)
       \/ TakeProfitHit(portfolio.positions[t], table[current_date][t], cfg)

C11_NonRebalanceStep ==
    NonRebalanceDay =>
        /\ portfolio'.cash = portfolio.cash
        /\ portfolio'.positions = portfolio.positions
        /\ portfolio'.realized_pnl = portfolio.realized_pnl
        /\ portfolio'.trade_history = portfolio.trade_history
        /\ executed' = executed
        /\ orders' = orders

\* C11: during a non-rebalance day no order is generated or executed and the
\* exit rules are not evaluated: cash, every position, realized_pnl and
\* trade_history keep their values through every step of the day, whatever
\* the bars of the held instruments are
C11_NonRebalanceDayLeavesLedger == [][C11_NonRebalanceStep]_vars

\* C11 witness: a non-rebalance day has been processed while a held
\* instrument met its stop-loss or take-profit condition
C11_Witness ==
    /\ pc = "log"
    /\ NonRebalanceDay
    /\ equity_curve[day] # None
    /\ \E t \in Tickers : ExitConditionMet(t)

\* the tickers of the fills applied so far on current_date
FilledToday ==
    {executed[i].fill.ticker : i \in {j \in Filled : executed[j].order_date = current_date}}

\* C12: on a rebalance day the rebalancing orders are computed from the
\* ledger as the exit fills left it (the exited instruments hold no shares,
\* total_value is the cash after the exit fills plus the market value), and
\* no rebalancing order, BUY or SELL, names an instrument whose exit order
\* was filled that day
C12_ExitsBeforeRebalancing ==
    (pc = "rebalance") =>
        /\ \A i \in DOMAIN orders : orders[i].ticker \notin sold_tickers
        /\ (next_order = 1) =>
              /\ sold_tickers = FilledToday
              /\ \A t \in sold_tickers : portfolio.positions[t].shares = 0
              /\ portfolio.total_value =
                     RAdd(portfolio.cash,
                          MarketValue(portfolio.positions, portfolio.keys,
                                      table[current_date], 1))
              /\ orders = generate_rebalancing_orders(portfolio, table[current_date],
                              AggregatedScores(signals[day]), cfg.top_n_positions,
                              sold_tickers)

\* C12 witness: the rebalancing orders of a day have been generated after an
\* exit fill of an instrument whose composite score is among the top_n
C12_Witness ==
    /\ pc = "rebalance"
    /\ \E t \in sold_tickers :
          /\ HasBar(table[current_date], t)
          /\ InSeq(t, TargetPortfolio(AggregatedScores(signals[day]),
                                      cfg.top_n_positions, {}))

\* the single-instrument scenario on the first three trading days: instrument
\* a is scored [5, 0, 0] by the one provider and has a bar with positive
\* prices on each day, the other instrument never being a candidate
ScenarioRun ==
    /\ cfg = ScenarioConfig
    /\ day = 3
    /\ pc = "log"
    /\ \A i \in 1..3 :
          /\ signals[i][1] = [t \in Tickers |-> IF t = "a" THEN (IF i = 1 THEN 5 ELSE 0) ELSE -1]
          /\ table[trading_days[i]]["a"] \in {BarFlat, BarUp, BarDown}

\* the BUY of day 1's signal: floor(1000 / close) shares, filled at the
\* typical price of the second trading day
ScenarioBuy ==
    LET quantity == IntTrunc(RDiv(R(1000), R(table[trading_days[1]]["a"].close)))
    IN  [order |-> Order("BUY", "a", Shares(quantity)),
         order_date |-> trading_days[1],
         fill |-> [type |-> "BUY", ticker |-> "a", quantity |-> quantity,
                   price |-> TypicalPrice(table[trading_days[2]]["a"]),
                   commission |-> Zero],
         applied_on |-> trading_days[1]]

\* C13 (the claim as stated): the scenario run makes one trade, the BUY of
\* day 1's signal, generates no order on days 2 and 3 and still holds the
\* position at its end
C13_SingleBuyStillHeld ==
    ScenarioRun =>
        /\ executed = <<ScenarioBuy>>
        /\ portfolio.positions["a"].shares = ScenarioBuy.fill.quantity

\* the SELL of day 2, when instrument a scores 0 and is no target any more:
\* the whole position, filled at the typical price of the third trading day
ScenarioSell ==
    [order |-> Order("SELL", "a", ALL),
     order_date |-> trading_days[2],
     fill |-> [type |-> "SELL", ticker |-> "a", quantity |-> ScenarioBuy.fill.quantity,
               price |-> TypicalPrice(table[trading_days[3]]["a"]),
               commission |-> Zero],
     applied_on |-> trading_days[2]]

\* C13 (amended): the scenario run makes two trades, the BUY of day 1's signal
\* of floor(1000 / close) shares at day 2's price and, the score being 0 on
\* day 2, a SELL of the whole position generated on day 2 at day 3's price;
\* day 3 generates no order and the run ends without a position
C13_BuyThenSellAll ==
    ScenarioRun =>
        /\ executed = <<ScenarioBuy, ScenarioSell>>
        /\ orders = <<>>
        /\ \A t \in Tickers : portfolio.positions[t].shares = 0
        /\ Len(portfolio.trade_history["a"]) = 1

\* C13 witness: the scenario run has reached the end of its third day, having
\* bought more than one share on the first
C13_Witness ==
    /\ ScenarioRun
    /\ Len(executed) >= 1
    /\ executed[1].fill # None
    /\ executed[1].fill.quantity > 1

\* a position of instrument a at average basis 100 whose bar of current_date
\* has a low at or below 90
LowAtOrBelow90 ==
    /\ portfolio.positions["a"].shares > 0
    /\ portfolio.positions["a"].purchase_price = R(100)
    /\ HasBar(table[current_date], "a")
    /\ table[current_date]["a"].low <= 90

\* the exit rules have just been evaluated on the position: the day emits a
\* SELL with quantity ALL for it
C14_EmitsSellAll ==
    (pc = "exits" /\ next_order = 1 /\ LowAtOrBelow90) =>
        orders = <<Order("SELL", "a", ALL)>>

\* the execution of that order, on the day it was emitted: it is filled
\* whenever the next trading day has a bar with a typical price other than 0,
\* at that typical price less the sell-side slippage, and the fill adds
\* (fill_price - 100) x n to realized_pnl
C14_ExecutionStep ==
    (ExecutionStep /\ LowAtOrBelow90 /\ Outcome.order = Order("SELL", "a", ALL)) =>
        LET n == portfolio.positions["a"].shares
            next_bar == table[FirstDateAfter(current_date)]["a"]
        IN  /\ Outcome.order_date = current_date
            /\ (next_bar # None /\ TypicalPrice(next_bar) # Zero) =>
                  /\ Outcome.fill # None
                  /\ Outcome.fill.quantity = n
                  /\ Outcome.fill.price =
                         RMul(TypicalPrice(next_bar), RSub(One, cfg.slippage_percent))
                  /\ portfolio'.realized_pnl =
                         RAdd(portfolio.realized_pnl,
                              RMul(RSub(Outcome.fill.price, R(100)), R(n)))
            /\ (next_bar = None \/ TypicalPrice(next_bar) = Zero) =>
                  /\ Outcome.fill = None
                  /\ portfolio'.realized_pnl = portfolio.realized_pnl

\* C14: with a 10% stop-loss and n shares at average basis 100, a day on
\* which the exit rules are evaluated and the low is <= 90 emits a SELL ALL
\* that day; the order is executed at the next trading day's typical price
\* with sell-side slippage, and realized_pnl rises by (fill_price - 100) x n
C14_StopLossScenario == [][C14_ExecutionStep]_vars /\ []C14_EmitsSellAll

\* C14 witness: the stop-loss SELL of a position of several shares bought at
\* 100 has been filled below 90 with slippage, at a loss
C14_Witness ==
    /\ Len(executed) = 2
    /\ executed[1].fill.price = R(100)
    /\ executed[1].fill.quantity > 1
    /\ executed[2].order = Order("SELL", "a", ALL)
    /\ executed[2].fill # None
    /\ cfg.slippage_percent # Zero
    /\ table[current_date]["a"].low = 90
    /\ portfolio.realized_pnl =
           RMul(RSub(executed[2].fill.price, R(100)), R(executed[1].fill.quantity))
    /\ RLt(portfolio.realized_pnl, Zero)

\* the strategies aggregated so far that had candidates
Normalized == {i \in DOMAIN normalized_history : normalized_history[i] # None}

\* the candidates of strategy i: the instruments it scores above 0
Candidates(i) == {t \in ScoreColumnSet : date_scores[i][t] > 0}

\* C15: a provider with 1 or 2 instruments of raw score > 0 contributes
\* exactly 1.0 to the composite score of each of them, whatever their raw
\* scores are, tied or not
C15_FewCandidatesContributeOne ==
    \A i \in Normalized :
        (Cardinality(Candidates(i)) \in {1, 2}) =>
            \A t \in Candidates(i) :
                /\ normalized_history[i].normalized_scores[t] = One
                /\ normalized_history[i].contribution[t] = One

\* C15 witness: a provider has contributed for two candidates with different
\* raw scores, and another for a single candidate
C15_Witness ==
    /\ \E i \in Normalized :
          \E t, u \in Candidates(i) :
              /\ Candidates(i) = {t, u}
              /\ date_scores[i][t] # date_scores[i][u]
    /\ \E i \in Normalized : Cardinality(Candidates(i)) = 1

\* the normalized scores of strategy i are numbers: rationals with a
\* denominator above 0
WellDefined(i) ==
    \A t \in Candidates(i) :
        /\ normalized_history[i].normalized_scores[t].n \in Int
        /\ normalized_history[i].normalized_scores[t].d > 0

\* all candidates of strategy i have the same raw score, hence the same rank
AllTied(i) == \A t, u \in Candidates(i) : date_scores[i][t] = date_scores[i][u]

\* C16: for a provider with more than 2 candidates that all tie every
\* normalized score is exactly 1.0, and the normalized scores of every
\* provider are defined numbers
C16_TiedRanksGiveOne ==
    \A i \in Normalized :
        /\ DOMAIN normalized_history[i].normalized_scores = Candidates(i)
        /\ WellDefined(i)
        /\ (Cardinality(Candidates(i)) > 2 /\ AllTied(i)) =>
              \A t \in Candidates(i) : normalized_history[i].normalized_scores[t] = One

\* C16 witness: a provider with three tied candidates and one with four have
\* been normalized
C16_Witness ==
    /\ \E i \in Normalized : Cardinality(Candidates(i)) = 3 /\ AllTied(i)
    /\ \E i \in Normalized : Cardinality(Candidates(i)) = 4 /\ AllTied(i)

\* the entries of config['strategies'] the loop has passed that are enabled
\* and name no known strategy
UnknownProvidersPassed ==
    {i \in DOMAIN strategies_config :
        /\ i < strategy_config_index
        /\ strategies_config[i].enabled
        /\ strategies_config[i].name \notin STRATEGY_MAPPING}

\* C17 (the claim as stated): an enabled provider with an unknown name makes
\* the construction of the backtest abort with an error; it is never left out
\* while the construction goes on
C17_UnknownProviderRejected ==
    (UnknownProvidersPassed # {}) => setup_pc = "raised"

\* the sweep has tried the first run_index - 1 scenarios, each once, in order
AttemptedInOrder ==
    /\ Len(attempts) = run_index - 1
    /\ \A k \in DOMAIN attempts :
          /\ attempts[k].run_number = k
          /\ attempts[k].strategies = all_combinations[k]

\* C18: an exception raised by one scenario is caught and the sweep goes on:
\* the scenarios are attempted once each, in order, whatever the earlier ones
\* did; the loop is never left before the last scenario and the sweep
\* finishes after it
C18_SweepAttemptsEveryScenario ==
    /\ sweep_pc \in {"loop", "finished"}
    /\ AttemptedInOrder
    /\ run_index <= Len(all_combinations) + 1
    /\ (sweep_pc = "loop") => ENABLED NextSweep
    /\ (sweep_pc = "finished") => Len(attempts) = Len(all_combinations)

\* C18 witness: a sweep of several scenarios has finished although its first
\* scenario raised
C18_Witness ==
    /\ sweep_pc = "finished"
    /\ Len(attempts) > 2
    /\ attempts[1].outcome # "completed"

\* the quantity an order stands for when it is executed: for ALL, the whole
\* holding of the moment
WholeQuantity(order) ==
    IF order.quantity = ALL THEN portfolio.positions[order.ticker].shares
    ELSE order.quantity.shares

\* the step takes the order the loop is at, on the day it was generated, and
\* ends it: a fill of the whole quantity, applied at once, or no fill and no
\* change of the ledger; the loop moves on and the earlier outcomes stay
C19_ExecutionStep ==
    ExecutionStep =>
        /\ pc \in {"exits", "rebalance"}
        /\ next_order \in DOMAIN orders
        /\ executed' = Append(executed, Outcome)
        /\ Outcome.order = orders[next_order]
        /\ Outcome.order_date = current_date
        /\ day' = day /\ orders' = orders /\ next_order' = next_order + 1
        /\ IF Outcome.fill = None THEN portfolio' = portfolio
           ELSE /\ Outcome.fill.quantity = WholeQuantity(Outcome.order)
                /\ Outcome.fill.type = Outcome.order.type
                /\ Outcome.fill.ticker = Outcome.order.ticker
                /\ Outcome.applied_on = current_date
                /\ portfolio' = update_positions_from_fill(portfolio, Outcome.fill, current_date)

\* a step that hands no order to execute_order leaves the outcomes alone and
\* takes a new order list only when the loop has passed the last order
C19_OtherStep ==
    ~ExecutionStep =>
        /\ executed' = executed
        /\ (orders' # orders \/ day' # day) => next_order > Len(orders)

\* the orders the loop has passed are the latest outcomes, in order; outside
\* the order loops no order is waiting
C19_OrdersConsumed ==
    /\ (pc \in {"exits", "rebalance"}) =>
          /\ next_order - 1 <= Len(executed)
          /\ \A k \in 1..(next_order - 1) :
                LET e == executed[Len(executed) - (next_order - 1) + k]
                IN  e.order = orders[k] /\ e.order_date = current_date
    /\ (pc \notin {"exits", "rebalance"}) => next_order > Len(orders)

\* C19: every generated order is handed to execute_order once, on the day it
\* was generated, and ends in that step, filled or not; an order without a
\* fill is not kept or retried, and a fill carries the order's whole quantity
C19_OrderEndsInOneStep ==
    [][C19_ExecutionStep /\ C19_OtherStep]_vars /\ []C19_OrdersConsumed

\* C19 witness: an order ended without a fill on one day, the run went on to
\* a later day and filled a SELL of a whole holding of several shares there
C19_Witness ==
    \E i, j \in DOMAIN executed :
        /\ i < j
        /\ executed[i].fill = None
        /\ executed[i].order_date < executed[j].order_date
        /\ executed[j].fill # None
        /\ executed[j].order.quantity = ALL
        /\ executed[j].fill.quantity > 1

\* the four cases in which execute_order has nothing to fill, for the order
\* the loop is at
NoDateFollows == DatesAfter(current_date) = {}

NoBarOnExecutionDay ==
    ~NoDateFollows /\ ~HasBar(table[FirstDateAfter(current_date)], orders[next_order].ticker)

TypicalPriceIsZero ==
    /\ ~NoDateFollows
    /\ HasBar(table[FirstDateAfter(current_date)], orders[next_order].ticker)
    /\ TypicalPrice(table[FirstDateAfter(current_date)][orders[next_order].ticker]) = Zero

NoQuantity == WholeQuantity(orders[next_order]) <= 0

C20_ExecutionStep ==
    (ExecutionStep /\ (NoDateFollows \/ NoBarOnExecutionDay \/ TypicalPriceIsZero \/ NoQuantity)) =>
        /\ Outcome.fill = None
        /\ portfolio' = portfolio
        /\ next_order' = next_order + 1
        /\ pc' = pc

\* C20: execute_order returns no fill when no calendar date follows the
\* order date, when the instrument has no bar on the execution day, when
\* that day's typical price is 0 and when the resolved quantity is <= 0; the
\* ledger is left as it was and the loop goes on with the next order
C20_NoFillLeavesLedger == [][C20_ExecutionStep]_vars

\* C20 witness: a SELL of all shares of an instrument that is not held ended
\* without a fill, and the next order of the list was filled on a tradeable
\* execution day
C20_Witness ==
    /\ Len(executed) = 3
    /\ day = 2
    /\ table[trading_days[3]]["a"] # None
    /\ TypicalPrice(table[trading_days[3]]["a"]) # Zero
    /\ executed[2].fill = None
    /\ executed[2].order = Order("SELL", "b", ALL)
    /\ executed[3].fill # None


\* how far the run has come: the day, the position inside the day's loop body
\* and, inside an order loop, the position in the order list
PcRank ==
    CASE pc = "mark" -> 0
      [] pc = "check" -> 1
      [] pc = "exits" -> 2
      [] pc = "rebalance" -> 3
      [] pc = "log" -> 4
      [] pc = "done" -> 5

Progress ==
    day * 1000 + PcRank * 100 + (IF pc \in {"exits", "rebalance"} THEN next_order ELSE 0)

\* the equity record is written by the day's mark-to-market, once, with the
\* total_value it returns; the day changes only at the end of the loop body,
\* to the next position of the calendar; every step brings the run forward
C21_DayStep ==
    /\ (pc = "mark") =>
          /\ equity_curve[day] = None
          /\ portfolio'.total_value =
                 RAdd(portfolio.cash,
                      MarketValue(portfolio.positions, portfolio.keys, table[current_date], 1))
          /\ equity_curve' = [equity_curve EXCEPT ![day] = portfolio'.total_value]
          /\ day' = day
    /\ (pc # "mark") => equity_curve' = equity_curve
    /\ (day' # day) => (pc = "log" /\ day' = day + 1 /\ pc' = "mark")
    /\ Progress' > Progress

\* before the end of the run the guard of an action holds: the loop body is
\* at one of its positions and an order loop is at an order or past the last
C21_CanGoOn ==
    /\ pc \in {"mark", "check", "exits", "rebalance", "log", "done"}
    /\ (pc = "check") =>
          \/ days_since_last_rebalance >= cfg.rebalancing_frequency
          \/ days_since_last_rebalance < cfg.rebalancing_frequency
    /\ (pc \in {"exits", "rebalance"}) => next_order \in 1..(Len(orders) + 1)

\* the days before the current one have their record, the later ones none;
\* the run is over only after the last day, and until then it can go on
C21_DaysRecorded ==
    /\ \A i, j \in DOMAIN trading_days : (i < j) => trading_days[i] < trading_days[j]
    /\ day \in 1..NumDays
    /\ \A i \in 1..NumDays :
          (equity_curve[i] # None) <=> (i < day \/ (i = day /\ pc # "mark"))
    /\ (pc = "done") => day = NumDays
    /\ C21_CanGoOn
    /\ Progress <= NumDays * 1000 + 500

\* C21: the run takes the trading days in ascending order, each once, and
\* ends after the last one; every trading day, rebalance day or not, gets one
\* equity record, the total_value of that day's mark-to-market
C21_EveryDayOnceWithEquity == [][C21_DayStep]_vars /\ []C21_DaysRecorded

\* C21 witness: a run with K = 2 has ended; its second day, not a rebalance
\* day, has its own equity record
C21_Witness ==
    /\ pc = "done"
    /\ cfg.rebalancing_frequency = 2
    /\ \A i \in 1..NumDays : equity_curve[i] # None
    /\ equity_curve[2] # equity_curve[1]


\* the exit orders of the day have just been generated
ExitOrdersGenerated == pc = "exits" /\ next_order = 1

\* the percentage conditions on ticker t's bar of current_date, for a
\* configured percentage v: low <= basis x (1 - v/100), high >= basis x (1 + v/100)
StopLossCondition(t) ==
    /\ cfg.stop_loss # None
    /\ RLe(R(table[current_date][t].low * 100),
           RMul(portfolio.positions[t].purchase_price, R(100 - cfg.stop_loss.value)))

TakeProfitCondition(t) ==
    /\ cfg.take_profit # None
    /\ RLe(RMul(portfolio.positions[t].purchase_price, R(100 + cfg.take_profit.value)),
           R(table[current_date][t].high * 100))

ExitOrdersFor(t) == {k \in DOMAIN orders : orders[k].ticker = t}

\* C22: on a rebalance day generate_exit_orders emits one SELL with quantity
\* ALL for each instrument with shares > 0 and a bar that day whose stop-loss
\* or take-profit condition holds, one order also when both hold, and no
\* order for any other instrument, those with 0 shares among them
C22_OneExitOrderPerTriggeredHolding ==
    ExitOrdersGenerated =>
        /\ \A k \in DOMAIN orders : orders[k].type = "SELL" /\ orders[k].quantity = ALL
        /\ \A t \in Tickers :
              Cardinality(ExitOrdersFor(t)) =
                  IF /\ portfolio.positions[t].shares > 0
                     /\ HasBar(table[current_date], t)
                     /\ (StopLossCondition(t) \/ TakeProfitCondition(t))
                  THEN 1 ELSE 0

\* C22 witness: a held instrument meets both conditions and has its one
\* order, while another held instrument meets none and has no order
C22_Witness ==
    /\ ExitOrdersGenerated
    /\ \E t, u \in Held :
          /\ HasBar(table[current_date], t) /\ HasBar(table[current_date], u)
          /\ StopLossCondition(t) /\ TakeProfitCondition(t)
          /\ ~StopLossCondition(u) /\ ~TakeProfitCondition(u)
          /\ Cardinality(ExitOrdersFor(t)) = 1
          /\ ExitOrdersFor(u) = {}


\* the rebalancing orders of the day have just been generated
RebalancingOrdersGenerated == pc = "rebalance" /\ next_order = 1

\* the day's target set
TargetsOfDay ==
    TargetPortfolio(AggregatedScores(signals[day]), cfg.top_n_positions, sold_tickers)

\* the targets that have a bar on current_date with a close above 0
PricedTargets ==
    {t \in Tickers : /\ InSeq(t, TargetsOfDay)
                     /\ HasBar(table[current_date], t)
                     /\ table[current_date][t].close > 0}

\* (total_value / top_n - shares x close) / close
QuantityRatio(t) ==
    LET close == R(table[current_date][t].close)
    IN  RDiv(RSub(RDiv(portfolio.total_value, R(cfg.top_n_positions)),
                  RMul(R(portfolio.positions[t].shares), close)),
             close)

\* the largest integer at most x
Floor(x) == x.n \div x.d

Min(a, b) == IF a < b THEN a ELSE b

\* the orders of t among the day's orders are what the quantity q asks for:
\* a BUY of q when q > 0, a SELL of min(|q|, shares) when q < 0, none when
\* q = 0 (or when there is no share to sell)
OrdersFollowQuantity(t, q) ==
    LET of_t == SelectSeq(orders, LAMBDA o : o.ticker = t)
        shares == portfolio.positions[t].shares
    IN  IF q > 0 THEN of_t = <<Order("BUY", t, Shares(q))>>
        ELSE IF q < 0 /\ Min(Abs(q), shares) > 0
        THEN of_t = <<Order("SELL", t, Shares(Min(Abs(q), shares)))>>
        ELSE of_t = <<>>

\* C23 (the claim as stated): the rebalancing quantity of a priced target is
\* floor((total_value / top_n - shares x close) / close), an overweight
\* position being trimmed by the floor value
C23_QuantityIsFloor ==
    RebalancingOrdersGenerated =>
        \A t \in PricedTargets : OrdersFollowQuantity(t, Floor(QuantityRatio(t)))

\* C23 (amended): the rebalancing quantity of a priced target is
\* (total_value / top_n - shares x close) / close truncated toward zero: the
\* floor when the ratio is >= 0, the ceiling when it is negative, so that an
\* overweight position is trimmed by the whole shares of its excess; a
\* quantity > 0 gives a BUY of it, a quantity < 0 a SELL of min(|quantity|,
\* shares), and 0 no order
C23_QuantityIsTruncated ==
    RebalancingOrdersGenerated =>
        \A t \in PricedTargets :
            LET x == QuantityRatio(t)
                q == IF x.n >= 0 THEN Floor(x) ELSE -Floor([n |-> -x.n, d |-> x.d])
            IN  OrdersFollowQuantity(t, q)

\* C23 witness: an overweight target whose excess is not a whole multiple of
\* the close is trimmed by the truncated quantity, one share less than the
\* floor would sell, and still holds more shares than either
C23_Witness ==
    /\ RebalancingOrdersGenerated
    /\ \E t \in PricedTargets :
          LET x == QuantityRatio(t)
          IN  /\ x.n < 0 /\ x.d # 1
              /\ -Floor(x) <= portfolio.positions[t].shares
              /\ \E k \in DOMAIN orders :
                    orders[k] = Order("SELL", t, Shares(-Floor(x) - 1))


\* the composite scores of the day and the instruments that have one above 0
CompositeScore == aggregated_scores_for_date.val

PositivelyScored == {t \in DOMAIN CompositeScore : RLt(Zero, CompositeScore[t])}

\* position of ticker t in sequence seq
IndexIn(t, seq) == CHOOSE i \in DOMAIN seq : seq[i] = t

\* the instruments ranked before t: those with a higher composite score and,
\* among equal scores, those that got their score earlier
RankedBefore(t) ==
    {u \in PositivelyScored :
        \/ RLt(CompositeScore[t], CompositeScore[u])
        \/ /\ CompositeScore[u] = CompositeScore[t]
           /\ IndexIn(u, aggregated_scores_for_date.keys)
                  < IndexIn(t, aggregated_scores_for_date.keys)}

\* the top_n instruments by descending composite score
TopByScore ==
    {t \in PositivelyScored : Cardinality(RankedBefore(t)) < cfg.top_n_positions}

\* the target set generate_rebalancing_orders works with
TargetsOfAggregation ==
    TargetPortfolio(aggregated_scores_for_date, cfg.top_n_positions, sold_tickers)

\* C24: on a rebalance day the target set is the top_n instruments by
\* descending composite score, all with a score > 0, less those exited that
\* day, so that it has at most top_n members and an exited instrument's slot
\* is not given to the next-ranked one; every BUY order is for a target,
\* never for an instrument whose composite score is <= 0 or absent
C24_TargetsAreTopNLessExited ==
    (pc = "rebalance") =>
        LET targets == {TargetsOfAggregation[i] : i \in DOMAIN TargetsOfAggregation}
        IN  /\ targets = TopByScore \ sold_tickers
            /\ Cardinality(targets) = Len(TargetsOfAggregation)
            /\ Cardinality(targets) <= cfg.top_n_positions
            /\ \A t \in targets :
                  /\ RLt(Zero, CompositeScore[t])
                  /\ InSeq(t, aggregated_scores_for_date.keys)
                  /\ Cardinality({u \in PositivelyScored :
                                     RLt(CompositeScore[t], CompositeScore[u])})
                         < cfg.top_n_positions
            /\ \A k \in DOMAIN orders :
                  (orders[k].type = "BUY") =>
                      /\ orders[k].ticker \in targets
                      /\ RLt(Zero, CompositeScore[orders[k].ticker])

\* C24 witness: the exited instrument is among the top_n by score, which
\* leaves fewer than top_n targets while an instrument with a score > 0
\* outside the top_n gets no order; the best-scored instrument, not the
\* first one scored, is bought
C24_Witness ==
    /\ pc = "rebalance"
    /\ sold_tickers \cap TopByScore # {}
    /\ Len(TargetsOfAggregation) < cfg.top_n_positions
    /\ \E t \in PositivelyScored \ (TopByScore \cup sold_tickers) :
          \A k \in DOMAIN orders : orders[k].ticker # t
    /\ \E k \in DOMAIN orders :
          /\ orders[k].type = "BUY"
          /\ IndexIn(orders[k].ticker, aggregated_scores_for_date.keys) > 1
          /\ \A u \in PositivelyScored \ {orders[k].ticker} :
                RLt(CompositeScore[u], CompositeScore[orders[k].ticker])


\* the held instruments that are not targets of the day
HeldNonTargets == {t \in Held : ~InSeq(t, TargetsOfDay)}

\* the order loop of the rebalancing orders has passed its last order
RebalancingOrdersExecuted == pc = "rebalance" /\ next_order > Len(orders)

\* the orders of current_date handed to execute_order so far
ExecutedToday == {i \in DOMAIN executed : executed[i].order_date = current_date}

\* C25: on a rebalance day every instrument with shares > 0 that is not in
\* the target set gets one SELL with quantity ALL and no other order; when
\* every order of the day has been filled, each instrument held after the
\* fills is a target of the day and at most top_n instruments are held
C25_NonTargetsSoldInFull ==
    /\ RebalancingOrdersGenerated =>
          \A t \in HeldNonTargets :
              SelectSeq(orders, LAMBDA o : o.ticker = t) = <<Order("SELL", t, ALL)>>
    /\ (RebalancingOrdersExecuted /\ \A i \in ExecutedToday : executed[i].fill # None) =>
          /\ \A t \in Held : InSeq(t, TargetsOfDay)
          /\ Cardinality(Held) <= cfg.top_n_positions

\* C25 witness: every order of a rebalance day has been filled, among them
\* the SELL ALL of a held instrument that was no target and a BUY of a
\* target, which is the one instrument held after the fills
C25_Witness ==
    /\ RebalancingOrdersExecuted
    /\ \A i \in ExecutedToday : executed[i].fill # None
    /\ \E i, j \in ExecutedToday :
          /\ executed[i].order.type = "SELL" /\ executed[i].order.quantity = ALL
          /\ executed[i].order.ticker \notin sold_tickers
          /\ executed[i].fill.quantity > 1
          /\ executed[j].order.type = "BUY"
          /\ Held = {executed[j].order.ticker}


\* the bar a fill was priced from: the one of its instrument on the first
\* calendar date after the order's day
ExecutionBar(e) == table[FirstDateAfter(e.order_date)][e.fill.ticker]

\* (high + low + close) / 3 of a bar
MeanOfHighLowClose(bar) == RDiv(R(bar.high + bar.low + bar.close), R(3))

\* the step applies a fill: its price against the bar it was priced from
C26_FillStep ==
    (ExecutionStep /\ Outcome.fill # None) =>
        LET e == Outcome
            typical == MeanOfHighLowClose(ExecutionBar(e))
        IN  /\ ExecutionBar(e) # None
            /\ e.fill.type \in {"BUY", "SELL"}
            /\ (e.fill.type = "BUY") =>
                  /\ e.fill.price = RMul(typical, RAdd(One, cfg.slippage_percent))
                  /\ RLe(Zero, cfg.slippage_percent) => RLe(typical, e.fill.price)
            /\ (e.fill.type = "SELL") =>
                  /\ e.fill.price = RMul(typical, RSub(One, cfg.slippage_percent))
                  /\ RLe(Zero, cfg.slippage_percent) => RLe(e.fill.price, typical)

\* C26: the price of every fill is the mean of the execution day's high, low
\* and close, times (1 + slippage_pct) for a BUY and (1 - slippage_pct) for a
\* SELL; with slippage_pct >= 0 a BUY never fills below and a SELL never
\* above that mean, and the open has no part in it
C26_FillPriceIsSlippedTypicalPrice == [][C26_FillStep]_vars

\* C26 witness: with a slippage above 0, a BUY has been filled above and a
\* SELL below the typical price of a bar whose open is another value
C26_Witness ==
    /\ RLt(Zero, cfg.slippage_percent)
    /\ \E i, j \in Filled :
          /\ executed[i].fill.type = "BUY"
          /\ executed[j].fill.type = "SELL"
          /\ \A k \in {i, j} :
                /\ R(ExecutionBar(executed[k]).open) # MeanOfHighLowClose(ExecutionBar(executed[k]))
                /\ executed[k].fill.price # MeanOfHighLowClose(ExecutionBar(executed[k]))


C27_SellAllStep ==
    (ExecutionStep /\ Outcome.order.type = "SELL" /\ Outcome.order.quantity = ALL) =>
        LET t == Outcome.order.ticker
            held_at_execution == portfolio.positions[t].shares
        IN  /\ (Outcome.fill # None) =>
                  /\ held_at_execution > 0
                  /\ Outcome.fill.quantity = held_at_execution
                  /\ portfolio'.positions[t].shares = 0
            /\ (held_at_execution = 0) =>
                  /\ Outcome.fill = None
                  /\ portfolio' = portfolio

\* C27: the quantity ALL of a SELL order is resolved when the order is
\* executed, against the share count the ledger has at that moment: a filled
\* SELL ALL has the quantity of the shares then held, whatever was held when
\* the order list was made, and leaves 0 shares; a SELL ALL of an instrument
\* with 0 shares at its execution has no fill
C27_AllResolvedAtExecution == [][C27_SellAllStep]_vars

\* C27 witness: in a list made while 5 shares were held, a BUY of 3 was
\* filled first and the SELL ALL after it was filled for 8 shares
C27_Witness ==
    /\ Len(executed) = 3
    /\ executed[1].fill.quantity = 5
    /\ executed[2].order = Order("BUY", "a", Shares(3))
    /\ executed[2].fill # None
    /\ executed[3].order = Order("SELL", "a", ALL)
    /\ executed[3].fill # None
    /\ executed[3].fill.quantity = 8
    /\ portfolio.positions["a"].shares = 0


\* the dense rank of candidate t of strategy i: 1 + the number of distinct
\* raw scores of the strategy's candidates above t's
RankOf(i, t) ==
    1 + Cardinality({date_scores[i][u] :
                        u \in {v \in Candidates(i) : date_scores[i][v] > date_scores[i][t]}})

MeanRank(i) ==
    RDiv(SumOver([t \in Candidates(i) |-> R(RankOf(i, t))], Candidates(i)),
         R(Cardinality(Candidates(i))))

\* the sum of the squared deviations of the ranks from their mean, over divisor
RankVariance(i, divisor) ==
    RDiv(SumOver([t \in Candidates(i) |->
                     RMul(RSub(R(RankOf(i, t)), MeanRank(i)), RSub(R(RankOf(i, t)), MeanRank(i)))],
                 Candidates(i)),
         R(divisor))

\* the strategies whose candidates are z-scored: more than 2 candidates, not
\* all of one rank
ZScored == {i \in Normalized : Cardinality(Candidates(i)) > 2 /\ ~AllTied(i)}

\* a best-ranked candidate of strategy i
BestRanked(i) == CHOOSE t \in Candidates(i) : RankOf(i, t) = 1

\* the normalized scores of strategy i are (mean_rank - rank) / s for one
\* s > 0 that is, to three decimals, the square root of the rank variance
\* over divisor
NormalizedByStd(i, divisor) ==
    LET z == normalized_history[i].normalized_scores
        best == BestRanked(i)
    IN  /\ RLt(Zero, z[best])
        /\ LET s == RDiv(RSub(MeanRank(i), One), z[best])
               above == RAdd(s, Norm(1, 1000))
           IN  /\ \A t \in Candidates(i) :
                      z[t] = RDiv(RSub(MeanRank(i), R(RankOf(i, t))), s)
               /\ RLe(RMul(s, s), RankVariance(i, divisor))
               /\ RLt(RankVariance(i, divisor), RMul(above, above))

\* a better rank never has a smaller normalized score, and a best-ranked
\* candidate has the highest one, above 0
BetterRankScoresHigher(i) ==
    LET z == normalized_history[i].normalized_scores
    IN  /\ \A t, u \in Candidates(i) :
              (RankOf(i, t) < RankOf(i, u)) => RLe(z[u], z[t])
        /\ \A u \in Candidates(i) : RLe(z[u], z[BestRanked(i)])
        /\ RLt(Zero, z[BestRanked(i)])

\* C28 (the claim as stated): the normalized scores of a provider with more
\* than 2 candidates of differing ranks are (mean_rank - rank) / std_rank
\* with std_rank the population standard deviation of the ranks, divisor n
C28_PopulationStd ==
    \A i \in ZScored :
        /\ NormalizedByStd(i, Cardinality(Candidates(i)))
        /\ BetterRankScoresHigher(i)

\* C28 (amended): the normalized scores of a provider with more than 2
\* candidates of differing ranks are (mean_rank - rank) / std_rank with
\* std_rank the sample standard deviation of the dense ranks, divisor n - 1;
\* a better rank never has a smaller normalized score and the best-ranked
\* candidate has the highest value, above 0
C28_SampleStd ==
    \A i \in ZScored :
        /\ NormalizedByStd(i, Cardinality(Candidates(i)) - 1)
        /\ BetterRankScoresHigher(i)

\* C28 witness: a provider with four candidates on three ranks, two of them
\* tied, has been z-scored, and a candidate of it scores 0 or below
C28_Witness ==
    \E i \in ZScored :
        /\ Cardinality(Candidates(i)) = 4
        /\ {RankOf(i, t) : t \in Candidates(i)} = {1, 2, 3}
        /\ \E t \in Candidates(i) : RLe(normalized_history[i].normalized_scores[t], Zero)


\* the raw scores of the candidates of strategy i
CandidateScores(i) == {date_scores[i][t] : t \in Candidates(i)}

\* C29: a provider's candidates are ranked by descending raw score with dense
\* ranking: the highest raw score has rank 1, equal raw scores have equal
\* ranks, a strictly lower raw score has a strictly larger rank, and the
\* ranks in use are 1..k, k being the number of distinct raw scores > 0
C29_DenseRanksByDescendingScore ==
    \A i \in Normalized :
        LET ranks == normalized_history[i].ranks
            raw == date_scores[i]
        IN  /\ DOMAIN ranks = Candidates(i)
            /\ \A t \in Candidates(i) :
                  (\A u \in Candidates(i) : raw[u] <= raw[t]) => ranks[t] = 1
            /\ \A t, u \in Candidates(i) :
                  /\ (raw[t] = raw[u]) => ranks[t] = ranks[u]
                  /\ (raw[t] < raw[u]) => ranks[t] > ranks[u]
            /\ {ranks[t] : t \in Candidates(i)} = 1..Cardinality(CandidateScores(i))

\* C29 witness: four candidates with two of them tied between the best and
\* the worst have the ranks 1, 2, 2 and 3
C29_Witness ==
    \E i \in Normalized :
        /\ Cardinality(Candidates(i)) = 4
        /\ Cardinality(CandidateScores(i)) = 3
        /\ \E t, u \in Candidates(i) :
              t # u /\ normalized_history[i].ranks[t] = 2 /\ normalized_history[i].ranks[u] = 2
        /\ \E t \in Candidates(i) : normalized_history[i].ranks[t] = 3


\* what strategy i gives instrument t: its normalized score when t is a
\* candidate of it and the score is above 0, nothing otherwise
GivenBy(i, t) ==
    IF /\ i \in Normalized
       /\ t \in Candidates(i)
       /\ RLt(Zero, normalized_history[i].normalized_scores[t])
    THEN normalized_history[i].normalized_scores[t]
    ELSE Zero

\* the strategies the loop has passed
Aggregated == {i \in DOMAIN date_scores : i < strategy_index}

\* the sum of the per-provider breakdown of instrument t
BreakdownSum(t) == SumOver(strategy_specific_scores[t], DOMAIN strategy_specific_scores[t])

\* C30 (the claim as stated): an instrument's composite score is the sum over
\* the providers of the normalized scores > 0 it has from them, a raw score
\* <= 0 or a normalized score <= 0 adding nothing; every composite score
\* present is above 0; and the per-provider breakdown of an instrument sums
\* to its composite score
C30_CompositeIsSumOfPositiveScores ==
    \A t \in ScoreColumnSet :
        /\ CompositeScore[t] = SumOver([i \in Aggregated |-> GivenBy(i, t)], Aggregated)
        /\ InSeq(t, aggregated_scores_for_date.keys) <=> RLt(Zero, CompositeScore[t])
        /\ \A i \in Aggregated :
              (date_scores[i][t] <= 0) => GivenBy(i, t) = Zero
        /\ BreakdownSum(t) = CompositeScore[t]


\* cash plus shares x close(current_date) over the held instruments with a bar
LedgerValue ==
    RAdd(portfolio.cash,
         SumOver([t \in HeldWithBar |->
                     RMul(R(portfolio.positions[t].shares),
                          R(table[current_date][t].close))], HeldWithBar))

\* the fills applied to the ledger on the current day
FillsToday == {i \in ExecutedToday : executed[i].fill # None}

\* the order of the positions of the loop body within a day
BodyOrder ==
    {<<"mark", "check">>, <<"check", "exits">>, <<"exits", "rebalance">>,
     <<"rebalance", "log">>, <<"check", "log">>, <<"log", "mark">>, <<"log", "done">>}

\* C31 (the claim as stated): at the end of a day's loop body, the equity
\* recorded for the day is the value of the ledger once the day's exit and
\* rebalancing fills have been applied
C31_EquityTakenAfterFills ==
    (pc = "log") => equity_curve[day] = LedgerValue

\* the loop body runs mark-to-market, exits, rebalancing, log in that order;
\* the equity record is written at the mark-to-market, before any order of the
\* day has been executed, with the value of the ledger of that moment, and the
\* execution of an order leaves the record as it is
C31_Step ==
    /\ (pc' # pc) => <<pc, pc'>> \in BodyOrder
    /\ (equity_curve' # equity_curve) =>
          /\ pc = "mark"
          /\ ExecutedToday = {}
          /\ equity_curve' = [equity_curve EXCEPT ![day] = LedgerValue]
    /\ ExecutionStep =>
          /\ pc \in {"exits", "rebalance"}
          /\ equity_curve[day] # None
          /\ equity_curve' = equity_curve

\* C31 (amended): within a day the steps run in the stated order except that
\* the equity is recorded first: the day's equity value is taken right after
\* the mark-to-market, before that day's exit and rebalancing fills
C31_EquityTakenBeforeFills == [][C31_Step]_vars

\* C31 witness: a day's loop body has come to its end with fills applied that
\* day, and the value of the ledger is no longer the equity recorded for the day
C31_Witness ==
    /\ pc = "log"
    /\ FillsToday # {}
    /\ equity_curve[day] # LedgerValue


\* the held instruments without a bar on current_date
HeldWithoutBar == Held \ HeldWithBar

\* a mark-to-market: the step of update_value at the head of the loop body, or
\* the one inside generate_rebalancing_orders
MarkStep == pc = "mark" \/ (pc = "exits" /\ pc' = "rebalance")

\* a mark-to-market with a held instrument that has no bar on the date leaves
\* cash, positions, realized_pnl and trade_history as they are
C32_MarkLeavesPositions ==
    (MarkStep /\ HeldWithoutBar # {}) =>
        /\ portfolio'.positions = portfolio.positions
        /\ portfolio'.cash = portfolio.cash
        /\ portfolio'.realized_pnl = portfolio.realized_pnl
        /\ portfolio'.trade_history = portfolio.trade_history

\* after a mark-to-market, a held instrument without a bar on the date counts
\* in total_value at shares x its most recent close
C32_LastValueInTotal ==
    (JustValued /\ HeldWithoutBar # {}) =>
        /\ \A t \in HeldWithoutBar : BarDatesUpTo(t, current_date) # {}
        /\ portfolio.total_value =
               RAdd(LedgerValue,
                    SumOver([t \in HeldWithoutBar |->
                                RMul(R(portfolio.positions[t].shares),
                                     LatestClose(t, current_date))], HeldWithoutBar))

\* C32: when a held instrument has no close for the date, mark-to-market
\* completes and leaves the position untouched, and the instrument stays in
\* total_value at shares x its most recent available close
C32_MissingBarFreezesValue == [][C32_MarkLeavesPositions]_vars /\ []C32_LastValueInTotal


\* a position without shares has basis 0 and no entry date; a position with
\* shares has an entry date
C33_PositionsWellFormed ==
    \A t \in Tickers :
        LET position == portfolio.positions[t]
        IN  /\ (position.shares = 0) =>
                  (position.purchase_price = Zero /\ position.entry_date = NoDate)
            /\ (position.shares > 0) => position.entry_date # NoDate

\* the position of t goes from a basis or an entry date to neither
ResetOf(t) ==
    /\ portfolio.positions[t] # NewPosition
    /\ portfolio'.positions[t].purchase_price = Zero
    /\ portfolio'.positions[t].entry_date = NoDate

\* the step applies a SELL fill of t that leaves no share of it
SellToZero(t) ==
    /\ FillStep("SELL")
    /\ Outcome.fill.ticker = t
    /\ portfolio'.positions[t].shares = 0

C33_ResetStep == \A t \in Tickers : ResetOf(t) <=> SellToZero(t)

\* C33: a position with shares = 0 has average cost basis 0 and a null
\* entry_date, a position with shares > 0 has an entry_date, and a position is
\* reset exactly by the SELL fill that brings its shares to 0
C33_ZeroSharesMeansReset == [][C33_ResetStep]_vars /\ []C33_PositionsWellFormed

\* C33 witness: an instrument bought and sold in full is back at basis 0 with
\* no entry date, while another instrument is held with its entry date
C33_Witness ==
    \E t, u \in Tickers :
        /\ portfolio.positions[t] = NewPosition
        /\ \E i \in Filled : executed[i].fill.ticker = t /\ executed[i].fill.type = "SELL"
        /\ portfolio.positions[u].shares > 0
        /\ portfolio.positions[u].entry_date # NoDate


\* C34: every scenario of the sweep has a Backtest constructed and run to its
\* end: a finished sweep of N combinations has N completed runs and no caught
\* error
C34_EveryScenarioCompletes ==
    /\ \A k \in DOMAIN attempts : attempts[k].outcome = "completed"
    /\ (sweep_pc = "finished") =>
          Cardinality({k \in DOMAIN attempts : attempts[k].outcome = "completed"})
              = Len(all_combinations)


\* cash plus the holdings at their average cost basis
BookValue ==
    RAdd(portfolio.cash,
         SumOver([t \in Tickers |-> RMul(R(portfolio.positions[t].shares),
                                         portfolio.positions[t].purchase_price)], Tickers))

\* the initial cash, plus the realized P&L, less one commission per fill applied
BookValueBalance ==
    BookValue = RSub(RAdd(cfg.initial_cash, portfolio.realized_pnl),
                     RMul(cfg.commission_per_trade, R(Cardinality(Filled))))

\* C35: in every ledger state, cash + sum of shares x average cost basis =
\* initial cash + realized_pnl - commission x number of fills applied so far
C35_BookValueConserved == []BookValueBalance

\* C35 witness: with a commission above 0, BUY fills and a SELL fill with a
\* realized P&L other than 0 have been applied and a position is still held
C35_Witness ==
    /\ RLt(Zero, cfg.commission_per_trade)
    /\ Cardinality(Filled) >= 3
    /\ \E i \in Filled : executed[i].fill.type = "SELL"
    /\ portfolio.realized_pnl # Zero
    /\ Held # {}


\* the sum of the pnl fields of the records of one instrument
RECURSIVE SumPnl(_)
SumPnl(records) ==
    IF records = <<>> THEN Zero
    ELSE RAdd(records[1].pnl, SumPnl(Tail(records)))

\* the sum of the pnl fields of all records of trade_history
RecordedPnl ==
    SumOver([t \in Tickers |-> SumPnl(portfolio.trade_history[t])], Tickers)

\* the step changes realized_pnl only by the pnl of a record it appends
C36_PnlStep ==
    (portfolio'.realized_pnl # portfolio.realized_pnl) =>
        /\ FillStep("SELL")
        /\ LET t == Outcome.fill.ticker
               records == portfolio'.trade_history[t]
           IN  /\ Len(records) = Len(portfolio.trade_history[t]) + 1
               /\ records[Len(records)].pnl =
                      RSub(portfolio'.realized_pnl, portfolio.realized_pnl)

\* C36: the pnl fields of all trade_history records sum to realized_pnl, and
\* no SELL fill changes realized_pnl without recording the same amount
C36_RecordsSumToRealizedPnl == [][C36_PnlStep]_vars /\ [](RecordedPnl = portfolio.realized_pnl)

\* C36 witness: an instrument still held has the record of a SELL fill, with
\* a pnl other than 0, and realized_pnl is not 0
C36_Witness ==
    \E t \in Tickers :
        /\ Len(portfolio.trade_history[t]) = 1
        /\ portfolio.trade_history[t][1].pnl # Zero
        /\ portfolio.positions[t].shares > 0
        /\ portfolio.realized_pnl # Zero


\* a fill leaves the positions of the other instruments as they are; a SELL
\* fill that leaves shares changes the share count of its instrument only
C37_FillStep ==
    (ExecutionStep /\ Outcome.fill # None) =>
        LET t == Outcome.fill.ticker
            before == portfolio.positions[t]
            after == portfolio'.positions[t]
        IN  /\ \A u \in Tickers \ {t} : portfolio'.positions[u] = portfolio.positions[u]
            /\ (Outcome.fill.type = "SELL" /\ after.shares > 0) =>
                  /\ after.shares = before.shares - Outcome.fill.quantity
                  /\ after.purchase_price = before.purchase_price
                  /\ after.entry_date = before.entry_date

\* C37: a SELL fill that leaves shares > 0 leaves the instrument's average
\* cost basis and entry_date unchanged, and a fill for one instrument never
\* changes the shares, basis or entry_date of another
C37_FillTouchesOnePosition == [][C37_FillStep]_vars

\* C37 witness: a SELL fill applied on a later day than the position's entry
\* has left shares, while the other instrument is held too
C37_Witness ==
    \E i \in Filled :
        LET t == executed[i].fill.ticker
        IN  /\ executed[i].fill.type = "SELL"
            /\ portfolio.positions[t].shares > 0
            /\ portfolio.positions[t].entry_date < executed[i].applied_on
            /\ \E u \in Held : u # t


\* the fills of instrument t applied on date d
FillsOn(d, t) == {i \in Filled : executed[i].applied_on = d /\ executed[i].fill.ticker = t}

\* the orders of the list being executed that concern instrument t
OrdersFor(t) == {k \in DOMAIN orders : orders[k].ticker = t}

\* at most one fill per instrument and day; an order list (exit or
\* rebalancing) has at most one order per instrument; a rebalancing SELL ALL
\* is for a non-target and an adjustment for a target; an instrument with an
\* exit fill that day has no rebalancing order
C38_FillsAndOrders ==
    /\ \A d \in CalendarDates, t \in Tickers : Cardinality(FillsOn(d, t)) <= 1
    /\ \A t \in Tickers : Cardinality(OrdersFor(t)) <= 1
    /\ (pc = "rebalance") =>
          /\ \A k \in DOMAIN orders :
                /\ orders[k].ticker \notin sold_tickers
                /\ (orders[k].quantity = ALL) <=> ~InSeq(orders[k].ticker, TargetsOfDay)
          /\ \A t \in sold_tickers : FillsOn(current_date, t) # {} /\ OrdersFor(t) = {}

\* C38: on any trading day at most one fill is applied per instrument: exit
\* orders are at most one per instrument, the rebalancing SELL ALL orders and
\* the target adjustments concern disjoint instruments, and an instrument with
\* an exit fill gets no rebalancing order
C38_OneFillPerInstrumentPerDay == []C38_FillsAndOrders

\* C38 witness: on one day an instrument had an exit fill and keeps a score
\* that makes it one of the top_n, and the other instrument has a rebalancing
\* fill
C38_Witness ==
    /\ pc = "rebalance"
    /\ next_order > Len(orders)
    /\ \E t \in sold_tickers :
          /\ t \in Tickers
          /\ AggregatedScores(signals[day]).val[t] # Zero
          /\ \E u \in Tickers \ {t} : FillsOn(current_date, u) # {}


\* C39: cash never becomes negative: no fill of a rebalance day spends more
\* cash than the ledger holds when the fill is applied
C39_CashNeverNegative == RLe(Zero, portfolio.cash)


\* the run is in its last trading day, or past it
InLastDay == day = NumDays

\* the orders handed to execute_order on the last trading day
LastDayOrders == {i \in DOMAIN executed : executed[i].order_date = trading_days[NumDays]}

\* a step of the last trading day executes an order without a fill and
\* leaves cash, positions, realized_pnl and trade_history as they are
C40_LastDayStep ==
    InLastDay =>
        /\ ExecutionStep => (Outcome.fill = None /\ Outcome.order_date = trading_days[NumDays])
        /\ portfolio'.cash = portfolio.cash
        /\ portfolio'.positions = portfolio.positions
        /\ portfolio'.realized_pnl = portfolio.realized_pnl
        /\ portfolio'.trade_history = portfolio.trade_history

\* no order of the last trading day has a fill, and no fill was applied on
\* that day
C40_NoLastDayFill ==
    /\ \A i \in LastDayOrders : executed[i].fill = None
    /\ \A i \in Filled : executed[i].applied_on < trading_days[NumDays]

\* C40: every order generated on the last trading day expires without a fill:
\* from the start of the last day to the end of the run cash, positions,
\* realized_pnl and trade_history stay as they were, and the positions held
\* then stay open
C40_LastDayOrdersExpire == [][C40_LastDayStep]_vars /\ []C40_NoLastDayFill

\* C40 witness: the run has ended; the last day was a rebalance day whose
\* exit or rebalancing orders, a SELL ALL of a held instrument and a BUY among
\* them, got no fill, and a position is still held
C40_Witness ==
    /\ pc = "done"
    /\ Held # {}
    /\ \E i \in LastDayOrders :
          /\ executed[i].order.type = "SELL"
          /\ executed[i].order.quantity = ALL
          /\ executed[i].order.ticker \in Held
    /\ \E i \in LastDayOrders : executed[i].order.type = "BUY"

====
